---- MODULE Spec2Model ----
(***************************************************************************)
(* Model of the nervix client runtime (nervix/channel.py, nervix/verbs.py,  *)
(* nervix/protocols/nxtcp/connection.py).                                   *)
(*                                                                          *)
(* The first part models the verb dispatcher (class Core) together with the *)
(* handles built on it (Session, Subscription, RequestStub/Request, Post):  *)
(* the auto-resend list, the TTL backlog, the messageref allocator, the     *)
(* handler registries, the calls made on connection.send_verb and the       *)
(* dispatch of the verbs that come in.  The second part models the state    *)
(* machine of NxtcpConnection with its timers and socket events, the Core   *)
(* being the observer of its ready flag.                                    *)
(*                                                                          *)
(* Conventions.                                                             *)
(*  - Python None is the empty tuple, a present value x is <<x>>; every     *)
(*    field of a verb is such an optional so that verbs of different types  *)
(*    can be compared, as BaseVerb.__eq__ compares their __dict__.          *)
(*  - A deque is a sequence whose index 1 is the LEFT end: appendleft puts  *)
(*    an element at index 1 and pop takes the element at index Len.         *)
(*  - time.monotonic() is the variable now, in whole seconds.               *)
(*  - handles holds the handle objects the application has created, in the *)
(*    order of creation; puts and upstream_verbs hold the calls of          *)
(*    put_upstream and of connection.send_verb that the last step made (the *)
(*    tests read MockedConnection.upstream_verbs after each step);          *)
(*    delivered holds the events that the last step passed to the handler   *)
(*    lists of the handles (HandlerList.call), with the handlers called.    *)
(***************************************************************************)
EXTENDS Integers, Sequences, FiniteSets, TLC

VARIABLES
    connection_ready,          \* Core.connection_ready
    upstream_auto_resend,      \* Core.upstream_auto_resend (list of verbs)
    upstream_backlog,          \* Core.upstream_backlog (deque of (verb, expires))
    next_messageref,           \* Core.next_messageref
    message_handlers,          \* Core.message_handlers: messageref -> handle
    call_handlers,             \* Core.call_handlers: name -> session handle or None
    interest_handlers,         \* Core.interest_handlers: name -> session handle or None
    connection_lost_handlers,  \* Core.connection_lost_handlers (set of session handles)
    now,                       \* time.monotonic()
    handles,                   \* the handle objects the application has created
    puts,                      \* the put_upstream calls of the last step
    upstream_verbs,            \* the connection.send_verb calls of the last step
    phase,                     \* number of calls of Core.__on_connection_ready so far
    result,                    \* what Core.cancel gave in the last step: "True" or "False"
                               \* returned, "AttributeError" raised, "None" if not called;
                               \* "Ignored" if the step was a post() that made no Post
    delivered,                 \* the events handed to the handles' handlers by the last step
    conn,                      \* the connection object (Core.connection)
    codec                      \* an Encoder and a Decoder object of their own, with
                               \* the bytes that went through them

vars == <<connection_ready, upstream_auto_resend, upstream_backlog, next_messageref,
          message_handlers, call_handlers, interest_handlers, connection_lost_handlers,
          now, handles, puts, upstream_verbs, phase, result, delivered, conn, codec>>

----------------------------------------------------------------------------
(* Bounds of the exploration *)

MaxHandles == 2      \* handle objects created in one run
MaxTime == 4         \* last value of the monotonic clock
MaxPhase == 3        \* changes of the ready flag in one run
MaxQueued == 3       \* requests and posts in one run of the backlog specification
MaxStubHandles == 3  \* the stub and its requests in one run of the stub specification
MaxHandlers == 3     \* handlers registered on one stub
MaxFrames == 2       \* packets encoded, and packets sent by the server, in one run
MaxChunks == 2       \* chunks waiting in the deque of the decoder
MaxTrips == 2        \* frames sent through the decoder one by one
MaxPongs == 2        \* chunks waiting in the deque of the connection's encoder
MaxFetched == 6      \* bytes fetched of one chunk of the connection's encoder
MaxWrites == 4       \* write_to_socket calls in one run
SmallChunk == 3      \* the chunksize of an encoder made with a small one
MaxSessions == 1     \* sessions made in one run of the link specification
MaxFailed == 10      \* entries into Failed counted since the last successful connect
MaxRegistered == 1   \* handlers registered on sessions and subscriptions in one run
MaxWireFailed == 2   \* failed attempts in a row that the wire specification follows
SplitAt == 6         \* bytes of the WELCOME frame that come in the first of two reads
MaxLinkBacklog == 1  \* verbs in the backlog when a frame of a verb is read

Names == {"a", "b"}

\* names that encode_name refuses: the empty one, one with a space, and one of
\* 256 characters
LongName == "aaaaaaaaaaaaaaaaaaaaaaaaaaaaaaaaaaaaaaaaaaaaaaaaaaaaaaaaaaaaaaaaaaaaaaaaaaaaaaaaaaaaaaaaaaaaaaaaaaaaaaaaaaaaaaaaaaaaaaaaaaaaaaaaaaaaaaaaaaaaaaaaaaaaaaaaaaaaaaaaaaaaaaaaaaaaaaaaaaaaaaaaaaaaaaaaaaaaaaaaaaaaaaaaaaaaaaaaaaaaaaaaaaaaaaaaaaaaaaaaaaaaaaaaaaaaaaaa"
BadNames == {"", "a b", LongName}
AllNames == Names \cup BadNames

\* the names in the verbs that the server sends: those of the sessions, and
\* one that validate_name refuses
DownstreamNames == Names \cup {"a b"}

\* str.encode() of the names: their UTF-8 bytes
str_encode(name) ==
    IF name = "a" THEN <<97>>
    ELSE IF name = "b" THEN <<98>>
    ELSE IF name = "a b" THEN <<97, 32, 98>>
    ELSE IF name = LongName THEN [i \in 1..256 |-> 97]
    ELSE <<>>

\* the test of encode_name for 0-9, A-Z, a-z, -, _
NameChar(c) ==
    \/ 48 <= c /\ c <= 57
    \/ 65 <= c /\ c <= 90
    \/ 97 <= c /\ c <= 122
    \/ c = 45
    \/ c = 95

\* encode_name(name): <<the bytes>>, or <<>> where it raises ValueError
encode_name(name) ==
    LET name_b == str_encode(name)
    IN  IF Len(name_b) > 255 THEN <<>>
        ELSE IF Len(name_b) < 1 THEN <<>>
        ELSE IF \E i \in 1..Len(name_b) : ~NameChar(name_b[i]) THEN <<>>
        ELSE <<name_b>>
Topics == {"t"}
Postrefs == {1}
SleepSteps == {2}

----------------------------------------------------------------------------
(* Optional values *)

None == <<>>
Some(x) == <<x>>
Val(o) == o[1]

\* Python truthiness of an optional number: None and 0 are falsy
Truthy(o) == o # None /\ Val(o) # 0

----------------------------------------------------------------------------
(* verbs.py: the upstream verbs, by the fields of their __dict__ *)

\* the fields a verb of the given type does not have are None
NoVerb ==
    [type |-> "", name |-> None, enforce |-> None, standby |-> None, persist |-> None,
     unidirectional |-> None, messageref |-> None, timeout |-> None, payload |-> None,
     postref |-> None, topic |-> None]

LoginVerb(name, enforce, standby, persist) ==
    [NoVerb EXCEPT !.type = "Login", !.name = Some(name), !.enforce = Some(enforce),
                   !.standby = Some(standby), !.persist = Some(persist)]

LogoutVerb(name) ==
    [NoVerb EXCEPT !.type = "Logout", !.name = Some(name)]

SubscribeVerb(name, messageref, topic) ==
    [NoVerb EXCEPT !.type = "Subscribe", !.name = Some(name),
                   !.messageref = Some(messageref), !.topic = Some(topic)]

\* an Unsubscribe built with name and topic exchanged
UnsubscribeVerbSwapped(name, topic) ==
    [NoVerb EXCEPT !.type = "Unsubscribe", !.name = Some(topic), !.topic = Some(name)]

UnsubscribeVerb(name, topic) ==
    [NoVerb EXCEPT !.type = "Unsubscribe", !.name = Some(name), !.topic = Some(topic)]

\* messageref is None for a unidirectional request
RequestVerb(name, unidirectional, messageref, timeout, payload) ==
    [NoVerb EXCEPT !.type = "Request", !.name = Some(name),
                   !.unidirectional = Some(unidirectional), !.messageref = messageref,
                   !.timeout = Some(timeout), !.payload = Some(payload)]

PostVerb(postref, payload) ==
    [NoVerb EXCEPT !.type = "Post", !.postref = Some(postref), !.payload = Some(payload)]

----------------------------------------------------------------------------
(* verbs.py: the downstream verbs.  name, topic and payload are the bytes of  *)
(* the packet; state and status are the names of the constants of the verb   *)

NoDownVerb ==
    [type |-> "", name |-> None, state |-> None, unidirectional |-> None,
     postref |-> None, payload |-> None, messageref |-> None, status |-> None,
     topic |-> None]

SessionVerb(name, state) ==
    [NoDownVerb EXCEPT !.type = "Session", !.name = Some(name), !.state = Some(state)]

\* postref is None for a unidirectional call
CallVerb(unidirectional, postref, name, payload) ==
    [NoDownVerb EXCEPT !.type = "Call", !.unidirectional = Some(unidirectional),
                       !.postref = postref, !.name = Some(name),
                       !.payload = Some(payload)]

\* payload is None unless the status is OK
MessageVerb(messageref, status, payload) ==
    [NoDownVerb EXCEPT !.type = "Message", !.messageref = Some(messageref),
                       !.status = Some(status), !.payload = payload]

InterestVerb(postref, name, status, topic) ==
    [NoDownVerb EXCEPT !.type = "Interest", !.postref = Some(postref),
                       !.name = Some(name), !.status = Some(status),
                       !.topic = Some(topic)]

\* validate_name(name): TRUE unless it raises ValueError
validate_name(name) ==
    /\ Len(name) <= 255
    /\ Len(name) >= 1
    /\ \A i \in 1..Len(name) : NameChar(name[i])

\* validate_refnr(nr): TRUE unless it raises ValueError, "nr <= 0" or
\* "nr > 2**32", the comparison with 2**32 being made on the two halves of nr
validate_refnr(nr) ==
    \/ nr = None
    \/ /\ Val(nr) > 0
       /\ \/ Val(nr) \div (2 ^ 16) < 2 ^ 16
          \/ Val(nr) \div (2 ^ 16) = 2 ^ 16 /\ Val(nr) % (2 ^ 16) = 0

\* validate_payload(payload): TRUE unless it raises ValueError
validate_payload(payload) == payload = None \/ Len(Val(payload)) <= 2 ^ 15

\* verb.validate() of a downstream verb: TRUE unless it raises ValueError;
\* validate_bool and validate_enum pass for the values that the connection
\* and the tests give to unidirectional, state and status
validate(verb) ==
    CASE verb.type = "Session" -> validate_name(Val(verb.name))
      [] verb.type = "Call" ->
            /\ validate_refnr(verb.postref)
            /\ validate_name(Val(verb.name))
            /\ validate_payload(verb.payload)
      [] verb.type = "Message" ->
            /\ validate_refnr(verb.messageref)
            /\ validate_payload(verb.payload)
      [] verb.type = "Interest" ->
            /\ validate_refnr(verb.postref)
            /\ validate_name(Val(verb.name))
            /\ validate_payload(verb.topic)

----------------------------------------------------------------------------
(* Sequence helpers *)

Last(s) == s[Len(s)]
Front(s) == SubSeq(s, 1, Len(s) - 1)

RECURSIVE Reversed(_)
Reversed(s) == IF s = <<>> THEN <<>> ELSE <<Last(s)>> \o Reversed(Front(s))

\* the index of the first element of s that equals x, 0 when there is none
RECURSIVE IndexOfFrom(_, _, _)
IndexOfFrom(s, x, i) ==
    IF i > Len(s) THEN 0
    ELSE IF s[i] = x THEN i
    ELSE IndexOfFrom(s, x, i + 1)

\* a remove that leaves the list as it is
ListRemoveNothing(s, x) == s

\* list.remove(x): drops the first element equal to x
ListRemove(s, x) ==
    LET i == IndexOfFrom(s, x, 1)
    IN  IF i = 0 THEN s ELSE SubSeq(s, 1, i - 1) \o SubSeq(s, i + 1, Len(s))

\* an append at the right end
AppendRight(q, x) == q \o <<x>>

\* deque.appendleft and deque.pop
AppendLeft(q, x) == <<x>> \o q
PopItem(q) == Last(q)
PopRest(q) == Front(q)

----------------------------------------------------------------------------
(* Core.put_upstream, by the three things it can change *)

\* "if auto_resend: self.upstream_auto_resend.append(verb)"
PutAutoResend(ar, verb, auto_resend) ==
    IF auto_resend THEN Append(ar, verb) ELSE ar

\* "elif ttl and ttl > 0.0": the verb is kept in the backlog
KeepsInBacklog(ttl) == Truthy(ttl) /\ Val(ttl) > 0

\* put_upstream sending without looking at the ready flag
PutSendAlways(ready, verb) == <<verb>>

\* put_upstream sending twice
PutSendTwice(ready, verb) == IF ready THEN <<verb, verb>> ELSE <<>>

\* "if self.connection_ready: self.connection.send_verb(verb)": the verbs sent
PutSend(ready, verb) == IF ready THEN <<verb>> ELSE <<>>

\* the verb put in the backlog also when it was sent at once
PutBacklogAlways(bl, ready, verb, ttl, t) ==
    IF KeepsInBacklog(ttl) THEN AppendLeft(bl, <<verb, Some(t + Val(ttl))>>) ELSE bl

\* "expires = time.monotonic() + ttl; self.upstream_backlog.appendleft((verb, expires))"
PutBacklog(bl, ready, verb, ttl, t) ==
    IF ~ready /\ KeepsInBacklog(ttl)
    THEN AppendLeft(bl, <<verb, Some(t + Val(ttl))>>)
    ELSE bl

----------------------------------------------------------------------------
(* Core.cancel *)

\* BaseVerb.__eq__(verb, other) with other a backlog tuple: tuple.__eq__ gives
\* NotImplemented, the reflected verb.__eq__ reads other.__dict__, which a tuple
\* does not have
VerbEqTuple(verb, entry) == "AttributeError"

\* "verb in self.upstream_backlog": the deque compares its items with the verb one
\* by one from the left; the first comparison already raises
RECURSIVE BacklogContains(_, _, _)
BacklogContains(bl, verb, i) ==
    IF i > Len(bl) THEN "False"
    ELSE IF VerbEqTuple(verb, bl[i]) = "True" THEN "True"
    ELSE IF VerbEqTuple(verb, bl[i]) = "AttributeError" THEN "AttributeError"
    ELSE BacklogContains(bl, verb, i + 1)

\* "self.upstream_backlog.remove(verb)"
RECURSIVE BacklogRemove(_, _, _)
BacklogRemove(bl, verb, i) ==
    IF i > Len(bl) THEN bl
    ELSE IF VerbEqTuple(verb, bl[i]) = "True"
         THEN SubSeq(bl, 1, i - 1) \o SubSeq(bl, i + 1, Len(bl))
         ELSE BacklogRemove(bl, verb, i + 1)

\* Core.cancel looking into the backlog before it touches the auto-resend list
CancelBacklogFirst(ar, bl, verb) ==
    LET found == BacklogContains(bl, verb, 1)
    IN  [auto_resend |-> IF found = "AttributeError" THEN ar ELSE ListRemove(ar, verb),
         backlog |-> IF found = "True" THEN BacklogRemove(bl, verb, 1) ELSE bl,
         res |-> found]

\* the result of Core.cancel: the lists after the call and the value returned
\* ("True", "False") or the exception that leaves the method
cancel(ar, bl, verb) ==
    LET ar1 == ListRemove(ar, verb)
        found == BacklogContains(bl, verb, 1)
    IN  [auto_resend |-> ar1,
         backlog |-> IF found = "True" THEN BacklogRemove(bl, verb, 1) ELSE bl,
         res |-> found]

----------------------------------------------------------------------------
(* Core.__on_connection_ready(True) *)

\* the loop leaving after its first round
AppendLeftFirst(q, vs) == IF vs = <<>> THEN q ELSE <<(<<vs[1], None>>)>> \o q

\* "for verb in reversed(self.upstream_auto_resend):
\*      self.upstream_backlog.appendleft((verb, None))"
RECURSIVE AppendLeftAll(_, _)
AppendLeftAll(q, vs) ==
    IF vs = <<>> THEN q
    ELSE AppendLeftAll(AppendLeft(q, <<vs[1], None>>), Tail(vs))

PrependAutoResend(bl, ar) == AppendLeftAll(bl, Reversed(ar))

\* Expired with the deadline itself counted as expired
ExpiredAtDeadline(expire, t) == Truthy(expire) /\ t >= Val(expire)

\* "if expire and now > expire: continue"
Expired(expire, t) == Truthy(expire) /\ t > Val(expire)

\* "while self.upstream_backlog: verb, expire = self.upstream_backlog.pop() ...
\*  self.connection.send_verb(verb)": the verbs sent, in the order sent
RECURSIVE Drain(_, _)
Drain(q, t) ==
    IF q = <<>> THEN <<>>
    ELSE LET item == PopItem(q)
         IN  (IF Expired(item[2], t) THEN <<>> ELSE <<item[1]>>) \o Drain(PopRest(q), t)

----------------------------------------------------------------------------
(* The NXTCP codec: nervix/util/encoder.py, nervix/util/decoder.py and        *)
(* nervix/protocols/nxtcp/encoder.py, decoder.py.  A byte is a number in      *)
(* 0..255 and a bytes object is a sequence of bytes.                          *)

Min(a, b) == IF a < b THEN a ELSE b

\* s[a:b] of Python for 0 <= a
Slice(s, a, b) == SubSeq(s, a + 1, Min(b, Len(s)))

\* the packet types of nervix/protocols/nxtcp/defines.py
defines ==
    [PACKET_LOGIN |-> 1,
     PACKET_LOGOUT |-> 3,
     PACKET_REQUEST |-> 4,
     PACKET_POST |-> 6,
     PACKET_SUBSCRIBE |-> 8,
     PACKET_UNSUBSCRIBE |-> 16,
     PACKET_PONG |-> 129,
     PACKET_QUIT |-> 132,
     PACKET_SESSION |-> 2,
     PACKET_CALL |-> 5,
     PACKET_MESSAGE |-> 7,
     PACKET_INTEREST |-> 9,
     PACKET_PING |-> 128,
     PACKET_WELCOME |-> 130,
     PACKET_BYEBYE |-> 131]

PACKET_LOGIN == defines.PACKET_LOGIN
PACKET_LOGOUT == defines.PACKET_LOGOUT
PACKET_REQUEST == defines.PACKET_REQUEST
PACKET_POST == defines.PACKET_POST
PACKET_SUBSCRIBE == defines.PACKET_SUBSCRIBE
PACKET_UNSUBSCRIBE == defines.PACKET_UNSUBSCRIBE
PACKET_PONG == defines.PACKET_PONG
PACKET_QUIT == defines.PACKET_QUIT
PACKET_SESSION == defines.PACKET_SESSION
PACKET_CALL == defines.PACKET_CALL
PACKET_MESSAGE == defines.PACKET_MESSAGE
PACKET_INTEREST == defines.PACKET_INTEREST
PACKET_PING == defines.PACKET_PING
PACKET_WELCOME == defines.PACKET_WELCOME
PACKET_BYEBYE == defines.PACKET_BYEBYE

\* struct.pack('>I', val) for 0 <= val < 2^32
pack_I(val) ==
    <<(val \div 16777216) % 256, (val \div 65536) % 256, (val \div 256) % 256, val % 256>>

\* struct.unpack_from('>I', frame, offset)[0] where four bytes are there
unpack_I(frame, offset) ==
    frame[offset + 1] * 16777216 + frame[offset + 2] * 65536
        + frame[offset + 3] * 256 + frame[offset + 4]

\* encoder.BasePacket: "self.chunk = bytearray(5)"; a packet object of the
\* encoder is its chunk
BasePacket == <<0, 0, 0, 0, 0>>

set_type(chunk, packettype) == [chunk EXCEPT ![5] = packettype]
add_uint8_field(chunk, value) == chunk \o <<value>>
add_uint32_field(chunk, value) == chunk \o pack_I(value)
add_string_field(chunk, value) == (chunk \o <<Len(value)>>) \o value
add_blob_field(chunk, value) == add_uint32_field(chunk, Len(value)) \o value

\* BasePacket.get_chunk: the length of the body is packed into the first four
\* bytes
get_chunk(chunk) == pack_I(Len(chunk) - 5) \o SubSeq(chunk, 5, Len(chunk))

\* True as an int
Bit(b) == IF b THEN 1 ELSE 0

\* encode_timeout: seconds to milliseconds, None to 0
encode_timeout(timeout) == IF timeout = None THEN 0 ELSE Val(timeout) * 1000

LoginPacket(name, enforce, standby, persist) ==
    add_string_field(
        add_uint8_field(set_type(BasePacket, PACKET_LOGIN),
                        Bit(persist) + 2 * Bit(standby) + 4 * Bit(enforce)),
        name)

LogoutPacket(name) == add_string_field(set_type(BasePacket, PACKET_LOGOUT), name)

\* the messageref written by a RequestPacket that writes the one it is given
MessagerefAsGiven(unidirectional, messageref) ==
    IF messageref = None THEN 0 ELSE Val(messageref)

\* RequestPacket.__init__: "0 if unidirectional else messageref"
WireMessageref(unidirectional, messageref) ==
    IF unidirectional THEN 0 ELSE Val(messageref)

RequestPacket(name, unidirectional, messageref, timeout, payload) ==
    add_blob_field(
        add_uint32_field(
            add_uint32_field(
                add_uint8_field(add_string_field(set_type(BasePacket, PACKET_REQUEST), name),
                                Bit(unidirectional)),
                WireMessageref(unidirectional, messageref)),
            encode_timeout(timeout)),
        payload)

PostPacket(postref, payload) ==
    add_blob_field(add_uint32_field(set_type(BasePacket, PACKET_POST), postref), payload)

SubscribePacket(messageref, name, topic) ==
    add_blob_field(
        add_string_field(add_uint32_field(set_type(BasePacket, PACKET_SUBSCRIBE), messageref),
                         name),
        topic)

UnsubscribePacket(name, topic) ==
    add_blob_field(add_string_field(set_type(BasePacket, PACKET_UNSUBSCRIBE), name), topic)

PongPacket == set_type(BasePacket, PACKET_PONG)

QuitPacket == set_type(BasePacket, PACKET_QUIT)

\* BaseEncoder.__init__; chunkbuffer is the deque, its left end first
BaseEncoder(size) ==
    [chunksize |-> size, chunkbuffer |-> <<>>, currentchunk |-> None,
     fetchpos |-> None, commitpos |-> None]

\* BaseEncoder.add_encoded_chunk: "self.chunkbuffer.appendleft(chunk)"
add_encoded_chunk(e, chunk) == [e EXCEPT !.chunkbuffer = <<chunk>> \o @]

\* Encoder.encode
encode(e, packet) == add_encoded_chunk(e, get_chunk(packet))

\* "not self.currentchunk": None or an empty bytes object
NoCurrentChunk(e) == e.currentchunk = None \/ Val(e.currentchunk) = <<>>

\* BaseEncoder.fetch_chunk with the chunksize of the encoder: the encoder
\* afterwards and the chunk returned, None if there is nothing to send
fetch_chunk(e) ==
    IF NoCurrentChunk(e) /\ e.chunkbuffer = <<>>
    THEN [encoder |-> e, chunk |-> None]
    ELSE LET popped == IF NoCurrentChunk(e)
                       THEN [e EXCEPT !.currentchunk = Some(Last(e.chunkbuffer)),
                                      !.chunkbuffer = SubSeq(@, 1, Len(@) - 1),
                                      !.fetchpos = Some(0), !.commitpos = Some(0)]
                       ELSE e
             current == Val(popped.currentchunk)
             startpos == Val(popped.commitpos)
             endpos == Min(startpos + Len(current), startpos + popped.chunksize)
             chunk == Slice(current, startpos, endpos)
         IN  [encoder |-> [popped EXCEPT !.fetchpos = Some(Val(@) + Len(chunk))],
              chunk |-> Some(chunk)]

\* commit that drops the current chunk at once
CommitDroppingChunk(e, amount) ==
    [encoder |-> [e EXCEPT !.commitpos = Some(Val(@) + amount), !.currentchunk = None],
     raised |-> None]

\* BaseEncoder.commit: the encoder afterwards and the exception raised
commit(e, amount) ==
    LET pos == Val(e.commitpos) + amount
        moved == [e EXCEPT !.commitpos = Some(pos)]
    IN  IF pos = Len(Val(e.currentchunk))
        THEN [encoder |-> [moved EXCEPT !.currentchunk = None], raised |-> None]
        ELSE [encoder |-> moved,
              raised |-> IF pos > Val(e.fetchpos) THEN Some("ValueError") ELSE None]

\* BaseEncoder.write_to_socket: the encoder afterwards, the number returned, the
\* bytes the socket took and the exception raised.  accept is what socket.send
\* does with the chunk it is offered: Some(n) if it takes the first n bytes,
\* None if it raises an OSError.
write_to_socket(e, accept) ==
    LET f == fetch_chunk(e)
    IN  IF f.chunk = None \/ Val(f.chunk) = <<>>
        THEN [encoder |-> f.encoder, n |-> 0, sent |-> <<>>, raised |-> None]
        ELSE IF accept = None
        THEN [encoder |-> f.encoder, n |-> 0, sent |-> <<>>, raised |-> Some("OSError")]
        ELSE LET c == commit(f.encoder, Val(accept))
             IN  [encoder |-> c.encoder, n |-> Val(accept),
                  sent |-> SubSeq(Val(f.chunk), 1, Val(accept)), raised |-> c.raised]

\* the number of bytes that a write would offer to the socket
Offered(e) ==
    LET f == fetch_chunk(e) IN IF f.chunk = None THEN 0 ELSE Len(Val(f.chunk))

\* BaseDecoder.__init__; chunkbuffer is the deque, its left end first
BaseDecoder == [chunkbuffer |-> <<>>, buff |-> <<>>, autocommit_amount |-> 0]

\* BaseDecoder.add_chunk: "self.chunkbuffer.appendleft(chunk)"
add_chunk(d, chunk) == [d EXCEPT !.chunkbuffer = <<chunk>> \o @]

\* the loop of BaseDecoder.get: chunks are popped from the right end of the
\* deque and appended to buff until buff holds size bytes or no chunk is left
RECURSIVE FillBuff(_, _)
FillBuff(d, size) ==
    IF Len(d.buff) >= size \/ d.chunkbuffer = <<>>
    THEN d
    ELSE FillBuff([d EXCEPT !.buff = @ \o Last(d.chunkbuffer),
                            !.chunkbuffer = SubSeq(@, 1, Len(@) - 1)],
                  size)

\* BaseDecoder.get(amount, offset): the decoder afterwards and the data
\* returned, None if the bytes are not there yet
get(d, amount, offset) ==
    LET f == FillBuff(d, offset + amount)
    IN  IF Len(f.buff) < offset + amount
        THEN [decoder |-> f, data |-> None]
        ELSE [decoder |-> [f EXCEPT !.autocommit_amount = offset + amount],
              data |-> Some(SubSeq(f.buff, offset + 1, offset + amount))]

\* BaseDecoder.commit(): the bytes of the last get leave buff
decoder_commit(d) ==
    [d EXCEPT !.buff = SubSeq(@, d.autocommit_amount + 1, Len(@)),
              !.autocommit_amount = 0]

\* the fields of the packets, those of the decoder and those given to the
\* constructors of the encoder; a field that a packet has is Some(value)
NoFields ==
    [state |-> None, name |-> None, unidirectional |-> None, postref |-> None,
     payload |-> None, status |-> None, messageref |-> None, topic |-> None,
     server_version |-> None, protocol_version |-> None,
     timeout |-> None, enforce |-> None, standby |-> None, persist |-> None]

\* a read of a field: the value, BasePacket.nextbyte afterwards and the
\* exception raised
FieldRead(value, nextbyte) == [value |-> Some(value), nextbyte |-> nextbyte, raised |-> None]
FieldRaises(exception, nextbyte) ==
    [value |-> None, nextbyte |-> nextbyte, raised |-> Some(exception)]

\* decoder.BasePacket.get_uint8; unpack_from raises struct.error when the
\* frame ends before the field
get_uint8(frame, offset) ==
    IF offset + 1 > Len(frame)
    THEN FieldRaises("struct.error", offset + 1)
    ELSE FieldRead(frame[offset + 1], offset + 1)

\* decoder.BasePacket.get_uint32
get_uint32(frame, offset) ==
    IF offset + 4 > Len(frame)
    THEN FieldRaises("struct.error", offset + 4)
    ELSE FieldRead(unpack_I(frame, offset), offset + 4)

\* get_string taking the length byte for the first byte of the string
StringFromLengthByte(frame, offset) ==
    LET length == get_uint8(frame, offset)
    IN  IF length.raised # None THEN length
        ELSE LET end == offset + 1 + Val(length.value)
             IN  IF end > Len(frame)
                 THEN FieldRaises("DecodingError", offset + 1)
                 ELSE FieldRead(SubSeq(frame, offset + 1, end - 1), end)

\* decoder.BasePacket.get_string
get_string(frame, offset) ==
    LET length == get_uint8(frame, offset)
    IN  IF length.raised # None THEN length
        ELSE LET end == offset + 1 + Val(length.value)
             IN  IF end > Len(frame)
                 THEN FieldRaises("DecodingError", offset + 1)
                 ELSE FieldRead(SubSeq(frame, offset + 2, end), end)

\* decoder.BasePacket.get_blob
get_blob(frame, offset) ==
    LET length == get_uint32(frame, offset)
    IN  IF length.raised # None THEN length
        ELSE LET end == offset + 4 + Val(length.value)
             IN  IF end > Len(frame)
                 THEN FieldRaises("DecodingError", offset + 4)
                 ELSE FieldRead(SubSeq(frame, offset + 5, end), end)

\* the packet object built from the reads of a constructor, or the exception
\* of the first read that raised
Constructed(type, reads, fields) ==
    IF \E i \in 1..Len(reads) : reads[i].raised # None
    THEN LET i == CHOOSE i \in 1..Len(reads) :
                      /\ reads[i].raised # None
                      /\ \A j \in 1..(i - 1) : reads[j].raised = None
         IN  [packet |-> None, raised |-> reads[i].raised]
    ELSE [packet |-> Some([type |-> type, fields |-> fields]), raised |-> None]

SessionPacket(frame) ==
    LET state == get_uint8(frame, 0)
        name == get_string(frame, state.nextbyte)
    IN  Constructed("SessionPacket", <<state, name>>,
                    [NoFields EXCEPT !.state = state.value, !.name = name.value])

CallPacket(frame) ==
    LET flags == get_uint8(frame, 0)
        postref == get_uint32(frame, flags.nextbyte)
        name == get_string(frame, postref.nextbyte)
        payload == get_blob(frame, name.nextbyte)
    IN  Constructed("CallPacket", <<flags, postref, name, payload>>,
                    [NoFields EXCEPT !.unidirectional = Some(Val(flags.value) % 2 = 1),
                                     !.postref = postref.value, !.name = name.value,
                                     !.payload = payload.value])

\* "self.payload = None", and the blob is read only if the status is OK
MessagePacket(frame) ==
    LET status == get_uint8(frame, 0)
        messageref == get_uint32(frame, status.nextbyte)
        payload == IF status.raised = None /\ Val(status.value) = 0
                   THEN get_blob(frame, messageref.nextbyte)
                   ELSE [value |-> None, nextbyte |-> messageref.nextbyte, raised |-> None]
    IN  Constructed("MessagePacket", <<status, messageref, payload>>,
                    [NoFields EXCEPT !.status = status.value,
                                     !.messageref = messageref.value,
                                     !.payload = payload.value])

InterestPacket(frame) ==
    LET status == get_uint8(frame, 0)
        postref == get_uint32(frame, status.nextbyte)
        name == get_string(frame, postref.nextbyte)
        topic == get_blob(frame, name.nextbyte)
    IN  Constructed("InterestPacket", <<status, postref, name, topic>>,
                    [NoFields EXCEPT !.status = status.value, !.postref = postref.value,
                                     !.name = name.value, !.topic = topic.value])

PingPacket(frame) == Constructed("PingPacket", <<>>, NoFields)

WelcomePacket(frame) ==
    LET server_version == get_uint32(frame, 0)
        protocol_version == get_uint32(frame, server_version.nextbyte)
    IN  Constructed("WelcomePacket", <<server_version, protocol_version>>,
                    [NoFields EXCEPT !.server_version = server_version.value,
                                     !.protocol_version = protocol_version.value])

ByeByePacket(frame) == Constructed("ByeByePacket", <<>>, NoFields)

\* Decoder.handler_map
handler_map ==
    {PACKET_SESSION, PACKET_CALL, PACKET_MESSAGE, PACKET_INTEREST, PACKET_PING,
     PACKET_WELCOME, PACKET_BYEBYE}

\* "handler(frame)" for a packet type of the handler_map
Handler(packet_type, frame) ==
    CASE packet_type = PACKET_SESSION -> SessionPacket(frame)
      [] packet_type = PACKET_CALL -> CallPacket(frame)
      [] packet_type = PACKET_MESSAGE -> MessagePacket(frame)
      [] packet_type = PACKET_INTEREST -> InterestPacket(frame)
      [] packet_type = PACKET_PING -> PingPacket(frame)
      [] packet_type = PACKET_WELCOME -> WelcomePacket(frame)
      [] packet_type = PACKET_BYEBYE -> ByeByePacket(frame)

\* decode giving a packet as soon as the header is there
DecodeOnHeader(d) ==
    LET header == get(d, 5, 0)
    IN  IF header.data = None
        THEN [decoder |-> header.decoder, packet |-> None, raised |-> None]
        ELSE LET packet_type == Val(header.data)[5]
                 committed == decoder_commit(header.decoder)
             IN  IF packet_type \notin handler_map
                 THEN [decoder |-> committed, packet |-> None,
                       raised |-> Some("DecodingError")]
                 ELSE [decoder |-> committed] @@ Handler(packet_type, <<>>)

\* Decoder.decode: the decoder afterwards, the packet returned (None if no
\* packet could be constructed) and the exception raised
decode(d) ==
    LET header == get(d, 5, 0)
    IN  IF header.data = None
        THEN [decoder |-> header.decoder, packet |-> None, raised |-> None]
        ELSE LET length == unpack_I(Val(header.data), 0)
                 packet_type == Val(header.data)[5]
                 frame == get(header.decoder, length, 5)
             IN  IF frame.data = None
                 THEN [decoder |-> frame.decoder, packet |-> None, raised |-> None]
                 ELSE LET committed == decoder_commit(frame.decoder)
                      IN  IF packet_type \notin handler_map
                          THEN [decoder |-> committed, packet |-> None,
                                raised |-> Some("DecodingError")]
                          ELSE [decoder |-> committed]
                                   @@ Handler(packet_type, Val(frame.data))

\* the frames of tests/nxtcp_packet_definition.py for the packets that the
\* server sends, and for the pong
packets_string(val) == <<Len(val)>> \o val
packets_blob(val) == pack_I(Len(val)) \o val

packets_session(name, state) ==
    pack_I(2 + Len(name)) \o <<PACKET_SESSION>> \o <<state>> \o packets_string(name)

packets_call(unidirectional, postref, name, payload) ==
    pack_I(10 + Len(name) + Len(payload)) \o <<PACKET_CALL>> \o <<Bit(unidirectional)>>
        \o pack_I(postref) \o packets_string(name) \o packets_blob(payload)

\* payload is None unless the status is MESSAGE_STATUS_OK
packets_message(messageref, status, payload) ==
    IF status = 0
    THEN pack_I(9 + Len(Val(payload))) \o <<PACKET_MESSAGE>> \o <<status>>
             \o pack_I(messageref) \o packets_blob(Val(payload))
    ELSE pack_I(5) \o <<PACKET_MESSAGE>> \o <<status>> \o pack_I(messageref)

packets_interest(postref, name, status, topic) ==
    pack_I(10 + Len(topic) + Len(name)) \o <<PACKET_INTEREST>> \o <<status>>
        \o pack_I(postref) \o packets_string(name) \o packets_blob(topic)

packets_pong == pack_I(0) \o <<PACKET_PONG>>

packets_ping == pack_I(0) \o <<PACKET_PING>>

packets_welcome == pack_I(8) \o <<PACKET_WELCOME>> \o pack_I(1) \o pack_I(1)

packets_byebye == pack_I(0) \o <<PACKET_BYEBYE>>

\* BaseEncoder.__init__: "chunksize=1024"
chunksize == 1024

\* an Encoder with the bytes that it was given and that the socket took, and a
\* Decoder with the bytes that the server sent and the results of its decode
\* calls
Codec(size) ==
    [enc |-> BaseEncoder(size),
     packets |-> <<>>,       \* the packets encoded, first one first
     frames |-> <<>>,        \* their frames
     accepted |-> <<>>,      \* the bytes that socket.send has taken
     writes |-> 0,           \* the number of write_to_socket calls
     raised |-> None,        \* the exception of the last write_to_socket
     dec |-> BaseDecoder,
     sent |-> <<>>,          \* the packets the server has sent, first one first
     wire |-> <<>>,          \* their bytes that no recv has returned yet
     fed |-> <<>>,           \* the bytes given to add_chunk
     decoded |-> <<>>,       \* the packets returned and exceptions raised by decode
     returned |-> None]      \* what the decode call of this step gave

----------------------------------------------------------------------------
(* The initial state: Core.__init__ *)

InitCore ==
    /\ connection_ready = FALSE
    /\ upstream_auto_resend = <<>>
    /\ upstream_backlog = <<>>
    /\ next_messageref = 1
    /\ message_handlers = <<>>
    /\ call_handlers = [n \in AllNames |-> None]
    /\ interest_handlers = [n \in AllNames |-> None]
    /\ connection_lost_handlers = {}
    /\ now = 0
    /\ handles = <<>>
    /\ puts = <<>>
    /\ upstream_verbs = <<>>
    /\ phase = 0
    /\ result = "None"
    /\ delivered = <<>>

----------------------------------------------------------------------------
(* The handle objects *)

\* a put_upstream call
PutCall(verb, ttl, auto_resend) == [verb |-> verb, ttl |-> ttl, auto_resend |-> auto_resend]

\* MessageStatus and InterestStatus are Flag enums: a value is the set of its
\* flags, and "a & b" is truthy iff the two sets meet
MessageStatus_OK == {"OK"}
MessageStatus_NOT_OK == {"UNREACHABLE", "TIMEOUT"}
MessageStatus_ANY == {"OK", "UNREACHABLE", "TIMEOUT"}
InterestStatus_ANY == {"INTEREST", "NO_INTEREST"}

\* MessageStatus.from_verb, InterestStatus.from_verb: NONE for any other status
from_verb(status) ==
    IF status \in MessageStatus_ANY \cup InterestStatus_ANY THEN {status} ELSE {}

\* the handler list of a handle when it is made: "HandlerList()" in
\* Session.__init__, Subscription.__init__ and RequestStub.__init__, while
\* Request.__init__ is handed the list of its stub ("self.handlers = handlers"),
\* which holds one handler with the default filter when the request is
\* bidirectional and none when it is unidirectional
HandlersAtInit(kind, verb) ==
    IF kind = "request" /\ verb.unidirectional = Some(FALSE) THEN <<MessageStatus_ANY>>
    ELSE <<>>

\* HandlerList.call with every handler taken to match
CallEveryHandler(handlers, call_filter) == [i \in 1..Len(handlers) |-> i]

\* HandlerList.call(call_filter): the handlers it invokes, by their place in the
\* list, in the order invoked; call_filter is a Flag value, never None, when it
\* comes from from_verb
HandlerListCall(handlers, call_filter) ==
    SelectSeq([i \in 1..Len(handlers) |-> i],
              LAMBDA i : handlers[i] \cap call_filter # {})

\* A handle object: its kind, its verb and the ttl it passes to put_upstream;
\* whether cancel() has been called on it; born, the value of phase when it was
\* created (odd: the link was ready); enqueued, the clock value at its creation
\* when it passed a ttl while the link was not ready; nsent, the number of times
\* its verb has been handed to the connection; current_interest, the keys of
\* Session.current_interest in the order of insertion (empty for other handles);
\* handlers, the filters of the handlers in its HandlerList in the order of
\* registration (Session.interest_handlers for a session); call_handlers, the
\* filters of the handlers in Session.call_handlers; stub, for a request sent
\* from a RequestStub held in handles, the stub whose HandlerList it shares;
\* reactions and call_reactions, for a session, what each handler of its
\* interest_handlers and of its call_handlers does when it is called (see
\* Reactions), the handlers of the other handles sending nothing.
Handle(kind, verb, ttl) ==
    [kind |-> kind, verb |-> verb, ttl |-> ttl, cancelled |-> FALSE, born |-> phase,
     enqueued |-> IF ~connection_ready /\ ttl # None THEN Some(now) ELSE None,
     nsent |-> 0, current_interest |-> <<>>,
     handlers |-> HandlersAtInit(kind, verb), call_handlers |-> <<>>, stub |-> None,
     reactions |-> <<>>, call_reactions |-> <<>>]

HandleIds == 1..Len(handles)
Live(h) == h \in HandleIds /\ ~handles[h].cancelled

RECURSIVE Count(_, _)
Count(s, x) == IF s = <<>> THEN 0 ELSE (IF s[1] = x THEN 1 ELSE 0) + Count(Tail(s), x)

\* A sent verb is counted for the handle that built it; two sessions of one name
\* build equal Login verbs, and a Login is counted for the later of them.
Counts(hs, h) == ~\E h2 \in (h + 1)..Len(hs) : hs[h2].verb = hs[h].verb

\* hs after the verbs vs were handed to the connection
Counted(hs, vs) ==
    [h \in 1..Len(hs) |->
        IF Counts(hs, h)
        THEN [hs[h] EXCEPT !.nsent = @ + Count(vs, hs[h].verb)]
        ELSE hs[h]]

----------------------------------------------------------------------------
(* connection.send_verb(verb) *)

\* StringSerializer.encode of a topic of the model, and of a payload, which is a
\* small number: str(obj).encode()
TopicBytes(topic) == IF topic = "t" THEN <<116>> ELSE <<>>
PayloadBytes(payload) == <<48 + payload>>

\* the packet that the verb handler of NxtcpConnection encodes (__on_login_verb,
\* __on_logout_verb, __on_request_verb, __on_post_verb, __on_subscribe_verb,
\* __on_unsubscribe_verb); the name of a verb is the bytes of encode_name
VerbPacket(verb) ==
    CASE verb.type = "Login" ->
            LoginPacket(str_encode(Val(verb.name)), Val(verb.enforce), Val(verb.standby),
                        Val(verb.persist))
      [] verb.type = "Logout" -> LogoutPacket(str_encode(Val(verb.name)))
      [] verb.type = "Request" ->
            RequestPacket(str_encode(Val(verb.name)), Val(verb.unidirectional),
                          verb.messageref, verb.timeout, PayloadBytes(Val(verb.payload)))
      [] verb.type = "Post" -> PostPacket(Val(verb.postref), PayloadBytes(Val(verb.payload)))
      [] verb.type = "Subscribe" ->
            SubscribePacket(Val(verb.messageref), str_encode(Val(verb.name)),
                            TopicBytes(Val(verb.topic)))
      [] verb.type = "Unsubscribe" ->
            UnsubscribePacket(str_encode(Val(verb.name)), TopicBytes(Val(verb.topic)))

\* NxtcpConnection.send_verb(verb): RuntimeError("Connection not ready") without
\* an encoder; else the packet is encoded and proxy.start_writing() called
send_verb(c, verb) ==
    IF ~c.encoder
    THEN [c EXCEPT !.raised = Some("RuntimeError")]
    ELSE [c EXCEPT !.enc = encode(@, VerbPacket(verb)), !.write_interest = TRUE]

\* the connection after the send_verb calls of one step; the exception of a
\* call ends the step. MockedConnection.send_verb appends the verb to its deque
\* upstream_verbs, which the variable upstream_verbs holds for the last step.
RECURSIVE Sent(_, _)
Sent(c, verbs) ==
    IF verbs = <<>> \/ "encoder" \notin DOMAIN c THEN c
    ELSE LET rest(c1) == IF c1.raised # None THEN c1 ELSE Sent(c1, Tail(verbs))
         IN  rest(send_verb(c, verbs[1]))

----------------------------------------------------------------------------
(* Core.put_upstream(verb, ttl, auto_resend), called with the auto-resend list *)
(* ar and the backlog bl as they are at the call                               *)

put_upstream(verb, ttl, auto_resend, ar, bl) ==
    /\ upstream_auto_resend' = PutAutoResend(ar, verb, auto_resend)
    /\ upstream_backlog' = PutBacklog(bl, connection_ready, verb, ttl, now)
    /\ upstream_verbs' = PutSend(connection_ready, verb)
    /\ puts' = <<PutCall(verb, ttl, auto_resend)>>

----------------------------------------------------------------------------
(* The Core inside a step of the connection.  The ready handler and the      *)
(* downstream handler of the connection are bound methods of the Core, and   *)
(* the connection calls them from inside its own handlers; what they do      *)
(* (send_verb calls among it) happens before the handler of the connection   *)
(* goes on.  While a step of the connection is computed the field core of    *)
(* the connection record holds the Core: the variables of the Core as they   *)
(* are before the step, with puts, upstream_verbs and delivered empty, and   *)
(* lost_order, the order in which this step iterates over the set            *)
(* connection_lost_handlers.  At the end of the step the variables take the  *)
(* values of the record, and the field is None between steps.                *)

TheCore(order) ==
    [connection_ready |-> connection_ready,
     upstream_auto_resend |-> upstream_auto_resend,
     upstream_backlog |-> upstream_backlog,
     next_messageref |-> next_messageref,
     message_handlers |-> message_handlers,
     call_handlers |-> call_handlers,
     interest_handlers |-> interest_handlers,
     connection_lost_handlers |-> connection_lost_handlers,
     handles |-> handles,
     phase |-> phase,
     puts |-> <<>>,
     upstream_verbs |-> <<>>,
     result |-> "None",
     delivered |-> <<>>,
     lost_order |-> order]

\* the variables of the Core after the step
CoreBecomes(k) ==
    /\ connection_ready' = k.connection_ready
    /\ upstream_auto_resend' = k.upstream_auto_resend
    /\ upstream_backlog' = k.upstream_backlog
    /\ next_messageref' = k.next_messageref
    /\ message_handlers' = k.message_handlers
    /\ call_handlers' = k.call_handlers
    /\ interest_handlers' = k.interest_handlers
    /\ connection_lost_handlers' = k.connection_lost_handlers
    /\ handles' = k.handles
    /\ phase' = k.phase
    /\ puts' = k.puts
    /\ upstream_verbs' = k.upstream_verbs
    /\ result' = k.result
    /\ delivered' = k.delivered

\* "self.connection.send_verb(verb)" called by the Core: the call is recorded,
\* counted for the handle of the verb, and made
CoreSends(c, verbs) ==
    Sent([c EXCEPT !.core.upstream_verbs = @ \o verbs,
                   !.core.handles = Counted(@, verbs)],
         verbs)

\* Core.put_upstream(verb, ttl, auto_resend) called from a handler that the
\* connection has called
PutUpstream(c, verb, ttl, auto_resend) ==
    LET k == c.core
        put == [c EXCEPT !.core.upstream_auto_resend = PutAutoResend(@, verb, auto_resend),
                         !.core.upstream_backlog =
                             PutBacklog(@, k.connection_ready, verb, ttl, now),
                         !.core.puts = Append(@, PutCall(verb, ttl, auto_resend))]
    IN  CoreSends(put, PutSend(k.connection_ready, verb))

\* new_messageref not advancing the counter
SameMessagerefAgain(h) ==
    /\ next_messageref' = next_messageref
    /\ message_handlers' =
           [r \in DOMAIN message_handlers \cup {next_messageref} |->
               IF r = next_messageref THEN h ELSE message_handlers[r]]

\* Core.new_messageref(handler)
new_messageref(h) ==
    /\ next_messageref' = next_messageref + 1
    /\ message_handlers' =
           [r \in DOMAIN message_handlers \cup {next_messageref} |->
               IF r = next_messageref THEN h ELSE message_handlers[r]]

\* message_handlers.pop(messageref, None)
Discarded(mh, messageref) ==
    [r \in DOMAIN mh \ (IF messageref = None THEN {} ELSE {Val(messageref)}) |-> mh[r]]

\* Core.discard_messageref(messageref): self.message_handlers.pop(messageref, None)
discard_messageref(messageref) ==
    message_handlers' = Discarded(message_handlers, messageref)

----------------------------------------------------------------------------
(* Session *)

\* A constructor left by the ValueError of encode_name: nothing is put upstream,
\* and the application gets no handle. The object is kept in handles, without a
\* verb, for the registrations that the constructor made before the error.
Raised(handle) ==
    /\ upstream_verbs' = <<>>
    /\ puts' = <<>>
    /\ handles' = Append(handles, handle)
    /\ result' = "ValueError"
    /\ UNCHANGED <<upstream_auto_resend, upstream_backlog>>

\* Session.__init__ called by Channel.session(name), which passes force, persist
\* and standby False; the application holds at most one session per name, the
\* dispatcher having one call and one interest slot per name
Session(name) ==
    /\ ~\E h \in HandleIds :
           handles[h].kind = "session" /\ handles[h].verb.name = Some(name) /\ Live(h)
    /\ LET h == Len(handles) + 1
           verb == LoginVerb(name, FALSE, FALSE, FALSE)
       IN  /\ call_handlers' = [call_handlers EXCEPT ![name] = Some(h)]
           /\ interest_handlers' = [interest_handlers EXCEPT ![name] = Some(h)]
           /\ connection_lost_handlers' = connection_lost_handlers \cup {h}
           /\ IF encode_name(name) = <<>>
              THEN Raised(Handle("session", NoVerb, None))
              ELSE /\ put_upstream(verb, None, TRUE, upstream_auto_resend, upstream_backlog)
                   /\ handles' = Counted(Append(handles, Handle("session", verb, None)),
                                         PutSend(connection_ready, verb))
                   /\ result' = "None"
    /\ delivered' = <<>>
    /\ conn' = Sent(conn, upstream_verbs')
    /\ UNCHANGED <<codec, connection_ready, next_messageref, message_handlers, now, phase>>

\* Session.cancel
SessionCancel(h) ==
    /\ Live(h) /\ handles[h].kind = "session"
    /\ handles' = [handles EXCEPT ![h].cancelled = TRUE]
    /\ LET c == cancel(upstream_auto_resend, upstream_backlog, handles[h].verb)
           name == Val(handles[h].verb.name)
       IN  IF c.res = "AttributeError"
           THEN /\ upstream_auto_resend' = c.auto_resend
                /\ upstream_backlog' = c.backlog
                /\ upstream_verbs' = <<>>
                /\ puts' = <<>>
                /\ result' = "AttributeError"
                /\ UNCHANGED <<call_handlers, interest_handlers, connection_lost_handlers>>
           ELSE /\ IF c.res = "False"
                   THEN put_upstream(LogoutVerb(name), None, FALSE, c.auto_resend, c.backlog)
                   ELSE /\ upstream_auto_resend' = c.auto_resend
                        /\ upstream_backlog' = c.backlog
                        /\ upstream_verbs' = <<>>
                        /\ puts' = <<>>
                /\ call_handlers' = [call_handlers EXCEPT ![name] = None]
                /\ interest_handlers' = [interest_handlers EXCEPT ![name] = None]
                /\ connection_lost_handlers' = connection_lost_handlers \ {h}
                /\ result' = c.res
    /\ delivered' = <<>>
    /\ conn' = Sent(conn, upstream_verbs')
    /\ UNCHANGED <<codec, connection_ready, next_messageref, message_handlers, now, phase>>

----------------------------------------------------------------------------
(* Subscription *)

\* Subscription.__init__ (Channel.subscribe)
Subscription(name, topic) ==
    /\ LET h == Len(handles) + 1
           verb == SubscribeVerb(name, next_messageref, topic)
       IN  /\ new_messageref(h)
           /\ IF encode_name(name) = <<>>
              THEN Raised(Handle("subscription", NoVerb, None))
              ELSE /\ put_upstream(verb, None, TRUE, upstream_auto_resend, upstream_backlog)
                   /\ handles' = Counted(Append(handles, Handle("subscription", verb, None)),
                                         PutSend(connection_ready, verb))
                   /\ result' = "None"
    /\ delivered' = <<>>
    /\ conn' = Sent(conn, upstream_verbs')
    /\ UNCHANGED <<codec, connection_ready, call_handlers, interest_handlers,
                   connection_lost_handlers, now, phase>>

\* Subscribe.__init__ of nervix/core.py, the class of that module which has the
\* place of Subscription, on the same Core
Subscribe(name, topic) ==
    /\ LET h == Len(handles) + 1
           verb == SubscribeVerb(name, next_messageref, topic)
       IN  /\ new_messageref(h)
           /\ IF encode_name(name) = <<>>
              THEN Raised(Handle("subscribe", NoVerb, None))
              ELSE /\ put_upstream(verb, None, TRUE, upstream_auto_resend, upstream_backlog)
                   /\ handles' = Counted(Append(handles, Handle("subscribe", verb, None)),
                                         PutSend(connection_ready, verb))
                   /\ result' = "None"
    /\ delivered' = <<>>
    /\ conn' = Sent(conn, upstream_verbs')
    /\ UNCHANGED <<codec, connection_ready, call_handlers, interest_handlers,
                   connection_lost_handlers, now, phase>>

\* Subscription.cancel, and Subscribe.cancel of nervix/core.py
SubscriptionCancel(h) ==
    /\ Live(h) /\ handles[h].kind \in {"subscription", "subscribe"}
    /\ handles' = [handles EXCEPT ![h].cancelled = TRUE]
    /\ LET verb == handles[h].verb
           c == cancel(upstream_auto_resend, upstream_backlog, verb)
       IN  IF c.res = "AttributeError"
           THEN /\ upstream_auto_resend' = c.auto_resend
                /\ upstream_backlog' = c.backlog
                /\ upstream_verbs' = <<>>
                /\ puts' = <<>>
                /\ result' = "AttributeError"
                /\ UNCHANGED message_handlers
           ELSE /\ IF c.res = "False"
                   THEN put_upstream(UnsubscribeVerb(Val(verb.name), Val(verb.topic)),
                                     None, FALSE, c.auto_resend, c.backlog)
                   ELSE /\ upstream_auto_resend' = c.auto_resend
                        /\ upstream_backlog' = c.backlog
                        /\ upstream_verbs' = <<>>
                        /\ puts' = <<>>
                /\ discard_messageref(verb.messageref)
                /\ result' = c.res
    /\ delivered' = <<>>
    /\ conn' = Sent(conn, upstream_verbs')
    /\ UNCHANGED <<codec, connection_ready, next_messageref, call_handlers, interest_handlers,
                   connection_lost_handlers, now, phase>>

----------------------------------------------------------------------------
(* RequestStub and Request *)

default_timeout == 5
default_ttl == 5

\* the ttl arguments the application passes to RequestStub.send
TtlArgs == {None, Some(0), Some(2)}

\* RequestStub.send: "ttl = ttl if ttl is not None else self.ttl" with a stub built
\* without ttl, then "ttl = ttl if ttl is not None else self.default_ttl"
ResolveTtl(ttl) == IF ttl # None THEN ttl ELSE Some(default_ttl)

\* RequestStub.send and Request.__init__ for a stub built without timeout and ttl;
\* bidirectional says whether the stub has a handler; the payload is the number
\* of the handle, so that no two requests carry the same payload
RequestSend(name, bidirectional, ttl_arg) ==
    /\ LET h == Len(handles) + 1
           unidirectional == ~bidirectional
           messageref == IF unidirectional THEN None ELSE Some(next_messageref)
           verb == RequestVerb(name, unidirectional, messageref, default_timeout, h)
           ttl == ResolveTtl(ttl_arg)
       IN  /\ IF unidirectional
              THEN UNCHANGED <<next_messageref, message_handlers>>
              ELSE new_messageref(h)
           /\ IF encode_name(name) = <<>>
              THEN Raised([Handle("request", NoVerb, ttl) EXCEPT
                              !.handlers = HandlersAtInit("request", verb)])
              ELSE /\ put_upstream(verb, ttl, FALSE, upstream_auto_resend, upstream_backlog)
                   /\ handles' = Counted(Append(handles, Handle("request", verb, ttl)),
                                         PutSend(connection_ready, verb))
                   /\ result' = "None"
    /\ delivered' = <<>>
    /\ conn' = Sent(conn, upstream_verbs')
    /\ UNCHANGED <<codec, connection_ready, call_handlers, interest_handlers,
                   connection_lost_handlers, now, phase>>

\* Request.cancel
RequestCancel(h) ==
    /\ Live(h) /\ handles[h].kind = "request"
    /\ handles' = [handles EXCEPT ![h].cancelled = TRUE]
    /\ LET verb == handles[h].verb
           c == cancel(upstream_auto_resend, upstream_backlog, verb)
       IN  /\ upstream_auto_resend' = c.auto_resend
           /\ upstream_backlog' = c.backlog
           /\ IF c.res = "AttributeError"
              THEN UNCHANGED message_handlers
              ELSE discard_messageref(verb.messageref)
           /\ result' = c.res
    /\ upstream_verbs' = <<>>
    /\ puts' = <<>>
    /\ delivered' = <<>>
    /\ UNCHANGED <<codec, conn, connection_ready, next_messageref, call_handlers, interest_handlers,
                   connection_lost_handlers, now, phase>>

----------------------------------------------------------------------------
(* Post *)

\* Post.__init__; the payload is the number of the handle
Post(postref, ttl) ==
    /\ LET h == Len(handles) + 1
           verb == PostVerb(postref, h)
       IN  /\ put_upstream(verb, ttl, FALSE, upstream_auto_resend, upstream_backlog)
           /\ handles' = Counted(Append(handles, Handle("post", verb, ttl)),
                                 PutSend(connection_ready, verb))
    /\ result' = "None"
    /\ delivered' = <<>>
    /\ conn' = Sent(conn, upstream_verbs')
    /\ UNCHANGED <<codec, connection_ready, next_messageref, message_handlers, call_handlers,
                   interest_handlers, connection_lost_handlers, now, phase>>

\* Post.cancel
PostCancel(h) ==
    /\ Live(h) /\ handles[h].kind = "post"
    /\ handles' = [handles EXCEPT ![h].cancelled = TRUE]
    /\ LET c == cancel(upstream_auto_resend, upstream_backlog, handles[h].verb)
       IN  /\ upstream_auto_resend' = c.auto_resend
           /\ upstream_backlog' = c.backlog
           /\ result' = c.res
    /\ upstream_verbs' = <<>>
    /\ puts' = <<>>
    /\ delivered' = <<>>
    /\ UNCHANGED <<codec, conn, connection_ready, next_messageref, message_handlers, call_handlers,
                   interest_handlers, connection_lost_handlers, now, phase>>

\* Call.default_ttl and Interest.default_ttl
post_default_ttl == 5

\* "ttl = ttl or self.default_ttl"
PostTtl(ttl_arg) == IF Truthy(ttl_arg) THEN ttl_arg ELSE Some(post_default_ttl)

\* a post() that logs a warning and returns without making a Post
PostIgnored ==
    /\ result' = "Ignored"
    /\ puts' = <<>>
    /\ upstream_verbs' = <<>>
    /\ delivered' = <<>>
    /\ UNCHANGED <<codec, conn, connection_ready, upstream_auto_resend, upstream_backlog,
                   next_messageref, message_handlers, call_handlers, interest_handlers,
                   connection_lost_handlers, now, handles, phase>>

\* a post() that makes a Post whatever the call or the interest is
CallPostAlways(unidirectional, postref, ttl_arg) == Post(postref, PostTtl(ttl_arg))

\* Call.post(payload, ttl) on the Call that Session.__on_call built from a CALL
\* verb with this unidirectional flag and postref
CallPost(unidirectional, postref, ttl_arg) ==
    IF unidirectional THEN PostIgnored ELSE Post(postref, PostTtl(ttl_arg))

\* Interest.post(payload, ttl) on the Interest that Session.__on_interest built
\* from an INTEREST verb with this status and postref
InterestPost(status, postref, ttl_arg) ==
    IF from_verb(status) # {"INTEREST"} THEN PostIgnored ELSE Post(postref, PostTtl(ttl_arg))

\* Channel.request(name): RequestStub.__init__, "self.handlers = HandlerList()"
ChannelRequest(name) ==
    /\ handles' = Append(handles, Handle("stub", [NoVerb EXCEPT !.name = Some(name)], None))
    /\ puts' = <<>>
    /\ upstream_verbs' = <<>>
    /\ result' = "None"
    /\ delivered' = <<>>
    /\ UNCHANGED <<codec, conn, connection_ready, upstream_auto_resend, upstream_backlog,
                   next_messageref, message_handlers, call_handlers, interest_handlers,
                   connection_lost_handlers, now, phase>>

\* the filters the application passes to add_handler
Filters == {MessageStatus_OK, MessageStatus_NOT_OK, MessageStatus_ANY}

\* RequestStub.add_handler(handler, filter): HandlerList.add
AddHandler(s, filter) ==
    /\ s \in HandleIds /\ handles[s].kind = "stub"
    /\ Len(handles[s].handlers) < MaxHandlers
    /\ handles' = [handles EXCEPT ![s].handlers = Append(@, filter)]
    /\ puts' = <<>>
    /\ upstream_verbs' = <<>>
    /\ result' = "None"
    /\ delivered' = <<>>
    /\ UNCHANGED <<codec, conn, connection_ready, upstream_auto_resend, upstream_backlog,
                   next_messageref, message_handlers, call_handlers, interest_handlers,
                   connection_lost_handlers, now, phase>>

\* HandlerList.add(handler, filter) on a list of the handle h
HandlerListAdd(hs) ==
    /\ handles' = hs
    /\ puts' = <<>>
    /\ upstream_verbs' = <<>>
    /\ result' = "None"
    /\ delivered' = <<>>
    /\ UNCHANGED <<codec, conn, connection_ready, upstream_auto_resend, upstream_backlog,
                   next_messageref, message_handlers, call_handlers, interest_handlers,
                   connection_lost_handlers, now, phase>>

\* Subscription.add_handler(handler, filter), and Subscribe.set_handler of
\* nervix/core.py
SubscriptionAddHandler(h, filter) ==
    /\ h \in HandleIds /\ handles[h].kind \in {"subscription", "subscribe"}
    /\ HandlerListAdd([handles EXCEPT ![h].handlers = Append(@, filter)])

\* the filters the application passes to add_interest_handler
InterestFilters == {{"INTEREST"}, {"NO_INTEREST"}, InterestStatus_ANY}

\* What a handler of the application does when it is called with an Interest
\* or a Call: nothing upstream ("none"); interest.post(payload) or
\* call.post(payload), without ttl ("post"); or
\* channel.request(name).send(payload), a request without handler and without
\* ttl ("request").  The handler keeps no Post or Request object.
Reactions == {"none", "post", "request"}

\* Session.add_interest_handler(handler, filter), the handler reacting so
add_interest_handler(h, filter, reaction) ==
    /\ h \in HandleIds /\ handles[h].kind = "session"
    /\ HandlerListAdd([handles EXCEPT ![h].handlers = Append(@, filter),
                                      ![h].reactions = Append(@, reaction)])

\* Session.add_call_handler(handler), the filter being None
add_call_handler(h, reaction) ==
    /\ h \in HandleIds /\ handles[h].kind = "session"
    /\ HandlerListAdd([handles EXCEPT ![h].call_handlers = Append(@, None),
                                      ![h].call_reactions = Append(@, reaction)])

\* the request taken to be as the stub was when it was built, without handlers
HadHandlersWhenBuilt(handlers) == FALSE

\* "bool(self.handlers)": HandlerList.__len__
HasHandlers(handlers) == Len(handlers) > 0

\* RequestStub.send() on the stub s and Request.__init__, which is handed the
\* HandlerList of the stub: "unidirectional = not bool(self.handlers)"
StubSend(s, ttl_arg) ==
    /\ s \in HandleIds /\ handles[s].kind = "stub"
    /\ LET h == Len(handles) + 1
           unidirectional == ~HasHandlers(handles[s].handlers)
           messageref == IF unidirectional THEN None ELSE Some(next_messageref)
           verb == RequestVerb(Val(handles[s].verb.name), unidirectional, messageref,
                               default_timeout, h)
           ttl == ResolveTtl(ttl_arg)
       IN  /\ IF unidirectional
              THEN UNCHANGED <<next_messageref, message_handlers>>
              ELSE new_messageref(h)
           /\ put_upstream(verb, ttl, FALSE, upstream_auto_resend, upstream_backlog)
           /\ handles' = Counted(Append(handles,
                                        [Handle("request", verb, ttl)
                                            EXCEPT !.handlers = <<>>, !.stub = Some(s)]),
                                 PutSend(connection_ready, verb))
    /\ result' = "None"
    /\ delivered' = <<>>
    /\ conn' = Sent(conn, upstream_verbs')
    /\ UNCHANGED <<codec, connection_ready, call_handlers, interest_handlers,
                   connection_lost_handlers, now, phase>>

----------------------------------------------------------------------------
(* The verbs that come in: Core.__on_incoming_verb and the callbacks of the  *)
(* handles                                                                   *)

MessageStatuses == {"OK", "TIMEOUT"}
InterestStatuses == {"INTEREST", "NO_INTEREST"}

\* the topics of the interests, as the bytes of the verb: b"t1" and b"t2"
InterestTopics == {<<116, 49>>, <<116, 50>>}

\* decode_name(bts), the key of a look-up in call_handlers or
\* interest_handlers, for bytes that validate_name has passed: the name of
\* Names that has these bytes, or None for another name, under which the
\* application has registered nothing
decode_name(bts) ==
    LET named == {n \in Names : str_encode(n) = bts}
    IN  IF named = {} THEN None ELSE Some(CHOOSE n \in named : TRUE)

\* the HandlerList that the handle h of hs calls: its own, or that of its stub
HandlersIn(hs, h) ==
    IF hs[h].stub = None THEN hs[h].handlers
    ELSE hs[Val(hs[h].stub)].handlers
HandlersOf(h) == HandlersIn(handles, h)

\* an event handed to the handler list of the handle h: a Message (status from
\* MessageStatus.from_verb) or an Interest (status from InterestStatus.from_verb);
\* called holds the handlers that HandlerList.call invokes for it
MessageEventIn(hs, h, messageref, status) ==
    [to |-> h, status |-> status, messageref |-> Some(messageref), topic |-> None,
     called |-> HandlerListCall(HandlersIn(hs, h), from_verb(status))]
MessageEvent(h, messageref, status) == MessageEventIn(handles, h, messageref, status)
InterestEventIn(hs, h, topic, status) ==
    [to |-> h, status |-> status, messageref |-> None, topic |-> Some(topic),
     called |-> HandlerListCall(HandlersIn(hs, h), from_verb(status))]
InterestEvent(h, topic, status) == InterestEventIn(handles, h, topic, status)

\* a dict as the sequence of its keys in the order of insertion:
\* d[k] = v, d.pop(k, None)
DictSet(keys, k) == IF \E i \in 1..Len(keys) : keys[i] = k THEN keys ELSE Append(keys, k)
DictPop(keys, k) == SelectSeq(keys, LAMBDA x : x # k)

\* what a handler of the application does when HandlerList.call calls it with
\* an Interest or a Call (see Reactions); posts says whether post() makes a
\* Post: "if self.status != InterestStatus.INTEREST: return" in Interest.post,
\* "if self.unidirectional: return" in Call.post; the payload is 0, which no
\* verb of a handle carries
React(c, reaction, posts, postref) ==
    IF reaction = "none" \/ (reaction = "post" /\ ~posts) THEN c
    ELSE PutUpstream(c,
                     IF reaction = "post" THEN PostVerb(Val(postref), 0)
                     ELSE RequestVerb("a", TRUE, None, default_timeout, 0),
                     IF reaction = "post" THEN PostTtl(None) ELSE ResolveTtl(None),
                     FALSE)

\* HandlerList.call: "for handler, handler_filter in self.handlers: if ...:
\* handler(*args)", called being the handlers whose filter matches; the
\* exception of a handler ends the loop
RECURSIVE Reacted(_, _, _, _, _)
Reacted(c, called, reactions, posts, postref) ==
    IF called = <<>> \/ c.raised # None THEN c
    ELSE Reacted(React(c, reactions[called[1]], posts, postref),
                 Tail(called), reactions, posts, postref)

\* the release made by Request.__on_message, left out
KeepMessageref(mh, messageref) == mh

\* Request.__on_message: "self.core.discard_messageref(self.messageref)"
ReleaseAfterResponse(mh, messageref) == Discarded(mh, Some(messageref))

\* Subscribe.__on_message of nervix/core.py ends, like Request.__on_message,
\* with core.discard_messageref(self.messageref)
SubscribeDiscards(hd) == hd.kind = "subscribe"

\* Core.__on_message_verb, then Subscription.__on_message, Request.__on_message
\* or Subscribe.__on_message; the handlers of these handles send nothing
on_message_verb(c, verb) ==
    LET k == c.core
        messageref == Val(verb.messageref)
    IN  IF messageref \notin DOMAIN k.message_handlers THEN c
        ELSE LET h == k.message_handlers[messageref]
                 event == MessageEventIn(k.handles, h, messageref, Val(verb.status))
             IN  [c EXCEPT !.core.delivered = Append(@, event),
                           !.core.message_handlers =
                               IF k.handles[h].kind = "request"
                                  \/ SubscribeDiscards(k.handles[h])
                               THEN ReleaseAfterResponse(@, messageref)
                               ELSE @]

\* Session.__on_interest: the interest set after a verb with this topic and status
StoreInterest(keys, topic, status) ==
    IF status = "INTEREST" THEN DictSet(keys, topic)
    ELSE IF status = "NO_INTEREST" THEN DictPop(keys, topic)
    ELSE keys

\* Session.__on_interest of the session h, called with an InterestVerb of this
\* topic, status and postref: the interest is stored or removed, and the
\* interest handlers are called with the Interest
session_on_interest(c, h, topic, status, postref) ==
    LET stored == [c EXCEPT !.core.handles[h].current_interest =
                                StoreInterest(@, topic, status)]
        event == InterestEventIn(stored.core.handles, h, topic, status)
    IN  Reacted([stored EXCEPT !.core.delivered = Append(@, event)],
                event.called, stored.core.handles[h].reactions,
                from_verb(status) = {"INTEREST"}, postref)

\* Core.__on_interest_verb: "handler = self.interest_handlers.get(name, None)",
\* the handler being Session.__on_interest
on_interest_verb(c, verb) ==
    LET name == decode_name(Val(verb.name))
        handler == IF name = None THEN None ELSE c.core.interest_handlers[Val(name)]
    IN  IF handler = None THEN c
        ELSE session_on_interest(c, Val(handler), Val(verb.topic), Val(verb.status),
                                 verb.postref)

\* HandlerList.call(None): "call_filter is None" holds for every handler
HandlerListCallNone(handlers) == [i \in 1..Len(handlers) |-> i]

\* a Call handed to the call handlers of the session h
CallEventIn(hs, h) ==
    [to |-> h, status |-> "CALL", messageref |-> None, topic |-> None,
     called |-> HandlerListCallNone(hs[h].call_handlers)]
CallEvent(h) == CallEventIn(handles, h)

\* Session.__on_call of the session h: the call handlers are called with the
\* Call
session_on_call(c, h, verb) ==
    LET event == CallEventIn(c.core.handles, h)
    IN  Reacted([c EXCEPT !.core.delivered = Append(@, event)],
                event.called, c.core.handles[h].call_reactions,
                ~Val(verb.unidirectional), verb.postref)

\* Core.__on_call_verb: "handler = self.call_handlers.get(name, None)", the
\* handler being Session.__on_call
on_call_verb(c, verb) ==
    LET name == decode_name(Val(verb.name))
        handler == IF name = None THEN None ELSE c.core.call_handlers[Val(name)]
    IN  IF handler = None THEN c
        ELSE session_on_call(c, Val(handler), verb)

\* Core.__on_session_verb: the state of the session is logged
on_session_verb(c, verb) == c

\* Core.__on_incoming_verb(verb), the downstream handler of the connection: a
\* verb whose validate() raises ValueError is logged and ignored
on_incoming_verb(c, verb) ==
    IF verb.type \in {"Session", "Call", "Message", "Interest"} /\ ~validate(verb)
    THEN c
    ELSE CASE verb.type = "Message" -> on_message_verb(c, verb)
           [] verb.type = "Call" -> on_call_verb(c, verb)
           [] verb.type = "Interest" -> on_interest_verb(c, verb)
           [] verb.type = "Session" -> on_session_verb(c, verb)
           [] OTHER -> [c EXCEPT !.raised = Some("NotImplementedError")]

----------------------------------------------------------------------------
(* Core.__on_connection_ready, called by the connection when its ready flag *)
(* changes (NxtcpConnection.__update_ready)                                  *)

\* the verbs that the transition into Ready sends, in the order sent
Flush(ar, bl, t) == Drain(PrependAutoResend(bl, ar), t)

\* the backlog that the loop of the flush leaves when its first send_verb call
\* raises: the entries behind the first one that has not expired
RECURSIVE Unsent(_, _)
Unsent(q, t) ==
    IF q = <<>> THEN <<>>
    ELSE IF Expired(PopItem(q)[2], t) THEN Unsent(PopRest(q), t)
    ELSE PopRest(q)

\* the ready branch of Core.__on_connection_ready: the auto-resend verbs join
\* the backlog, and the backlog is popped until it is empty; send_verb raises
\* at the first call or not at all, the encoder not changing meanwhile
flush(c) ==
    LET k == c.core
        verbs == Flush(k.upstream_auto_resend, k.upstream_backlog, now)
        raises == verbs # <<>> /\ "encoder" \in DOMAIN c /\ ~c.encoder
    IN  CoreSends([c EXCEPT !.core.upstream_backlog =
                                IF raises
                                THEN Unsent(PrependAutoResend(k.upstream_backlog,
                                                              k.upstream_auto_resend),
                                            now)
                                ELSE <<>>],
                  IF raises THEN <<verbs[1]>> ELSE verbs)

\* Session.__on_connection_lost of the session h: "while self.current_interest:
\* topic, verb = self.current_interest.popitem()", the status of the verb is
\* set to NO_INTEREST and "self.__on_interest(verb)" called; nothing is posted
\* on such an Interest, so that the postref of the verb plays no part
RECURSIVE session_on_connection_lost(_, _)
session_on_connection_lost(c, h) ==
    LET keys == c.core.handles[h].current_interest
    IN  IF keys = <<>> \/ c.raised # None THEN c
        ELSE session_on_connection_lost(
                 session_on_interest([c EXCEPT !.core.handles[h].current_interest =
                                                   Front(keys)],
                                     h, Last(keys), "NO_INTEREST", None),
                 h)

\* the orders in which a set can be iterated
Orders(S) ==
    {f \in [1..Cardinality(S) -> S] : \A i, j \in 1..Cardinality(S) : i # j => f[i] # f[j]}

\* "for handler in self.connection_lost_handlers: handler()" leaving out the call
NotifyNobody(lost_handlers) == {}

\* the handlers that "for handler in self.connection_lost_handlers" calls
Notified(lost_handlers) == lost_handlers

\* the orders in which a step may iterate over connection_lost_handlers
LostOrders == Orders(Notified(connection_lost_handlers))

\* "for handler in self.connection_lost_handlers: handler()" in the order given
RECURSIVE notify_lost(_, _)
notify_lost(c, order) ==
    IF order = <<>> \/ c.raised # None THEN c
    ELSE notify_lost(session_on_connection_lost(c, order[1]), Tail(order))

\* Core.__on_connection_ready(ready), the ready handler of the connection
on_connection_ready(c, ready) ==
    LET told == [c EXCEPT !.core.connection_ready = ready, !.core.phase = @ + 1]
    IN  IF ready THEN flush(told) ELSE notify_lost(told, c.core.lost_order)

----------------------------------------------------------------------------
(* The channel on a MockedConnection (tests/util/mockedconnection.py), whose  *)
(* ready flag and downstream verbs the test sets; its send_verb never raises  *)

MockedConnection == [ready |-> FALSE, raised |-> None, core |-> None]

Init ==
    /\ InitCore
    /\ conn = MockedConnection
    /\ codec = Codec(chunksize)

\* the MockedConnection as a handler of the Core is entered
Mocked(order) == [conn EXCEPT !.core = TheCore(order)]

\* a step of the test on the MockedConnection that leaves it as c
MockStep(c) ==
    \E after \in {c} :
        /\ conn' = [after EXCEPT !.core = None]
        /\ CoreBecomes(after.core)
        /\ UNCHANGED <<codec, now>>

\* mock_connection_ready(True) while the link is not ready
OnConnectionReady ==
    /\ ~connection_ready
    /\ MockStep(on_connection_ready([Mocked(<<>>) EXCEPT !.ready = TRUE], TRUE))

\* mock_connection_ready(False) while the link is ready
OnConnectionLost ==
    /\ connection_ready
    /\ \E order \in LostOrders :
           MockStep(on_connection_ready([Mocked(order) EXCEPT !.ready = FALSE], FALSE))

\* mock_downstream_verb(MessageVerb(messageref, status, payload))
MockDownstreamMessage(messageref, status) ==
    MockStep(on_incoming_verb(Mocked(<<>>),
                              MessageVerb(messageref, status,
                                          IF status = "OK" THEN Some(<<55>>) ELSE None)))

\* mock_downstream_verb(InterestVerb(postref, name, status, topic))
MockDownstreamInterest(name, topic, status) ==
    MockStep(on_incoming_verb(Mocked(<<>>), InterestVerb(1, str_encode(name), status, topic)))

\* mock_downstream_verb(CallVerb(unidirectional, postref, name, payload))
MockDownstreamCall(name) ==
    MockStep(on_incoming_verb(Mocked(<<>>),
                              CallVerb(FALSE, Some(1), str_encode(name), <<55>>)))

\* Time passes (time.sleep in the tests). The clock is read by put_upstream only
\* when the link is not ready and by the flush, so the time that passes while the
\* link is ready changes nothing and is left out.
Sleep(d) ==
    /\ ~connection_ready
    /\ now' = now + d
    /\ upstream_verbs' = <<>>
    /\ puts' = <<>>
    /\ result' = "None"
    /\ delivered' = <<>>
    /\ UNCHANGED <<codec, conn, connection_ready, upstream_auto_resend, upstream_backlog,
                   next_messageref, message_handlers, call_handlers, interest_handlers,
                   connection_lost_handlers, handles, phase>>

----------------------------------------------------------------------------

\* the ttl arguments the application passes to Post
PostTtls == {None, Some(2)}

\* the handlers registered on the handles
RECURSIVE Registered(_)
Registered(hs) ==
    IF hs = <<>> THEN 0
    ELSE Len(hs[1].handlers) + Len(hs[1].call_handlers) + Registered(Tail(hs))

\* the application registers a handler on a subscription or on a session, up
\* to MaxRegistered of them in a run
RegisterOnSubscription ==
    /\ Registered(handles) < MaxRegistered
    /\ \E h \in HandleIds, filter \in Filters : SubscriptionAddHandler(h, filter)
RegisterOnSession ==
    /\ Registered(handles) < MaxRegistered
    /\ \E h \in HandleIds :
           \/ \E filter \in InterestFilters : add_interest_handler(h, filter, "none")
           \/ add_call_handler(h, "none")

\* the application creates a handle
Create ==
    \/ \E name \in Names : Session(name)
    \/ \E name \in Names, topic \in Topics : Subscription(name, topic)
    \/ \E ttl \in TtlArgs : RequestSend("a", FALSE, ttl)
    \/ RequestSend("a", TRUE, None)
    \/ \E postref \in Postrefs, ttl \in PostTtls : Post(postref, ttl)

\* the application cancels a handle
Cancel ==
    \E h \in HandleIds :
        SessionCancel(h) \/ SubscriptionCancel(h) \/ RequestCancel(h) \/ PostCancel(h)

\* The handles and the link; the clock stands still, the passing of time is
\* part of the backlog specification below
Next ==
    \/ Len(handles) < MaxHandles /\ Create
    \/ Cancel
    \/ phase < MaxPhase /\ (OnConnectionReady \/ OnConnectionLost)

Spec == Init /\ [][Next]_vars

\* The verbs that come in: sessions, subscriptions and requests with a handler,
\* the messages and interests that the server sends them, and the link
NextInbound ==
    \/ /\ Len(handles) < MaxHandles
       /\ \/ \E name \in Names : Session(name)
          \/ Subscription("a", "t")
          \/ RequestSend("a", TRUE, None)
    \/ RegisterOnSubscription
    \/ RegisterOnSession
    \/ Cancel
    \/ phase < MaxPhase /\ (OnConnectionReady \/ OnConnectionLost)
    \/ \E messageref \in 1..next_messageref, status \in MessageStatuses :
           MockDownstreamMessage(messageref, status)
    \/ \E name \in Names, topic \in InterestTopics, status \in InterestStatuses :
           MockDownstreamInterest(name, topic, status)

SpecInbound == Init /\ [][NextInbound]_vars

\* The verbs of which some allocate a messageref and some do not, their
\* cancels, the responses that release a messageref, and the link
NextMessageref ==
    \/ /\ Len(handles) < MaxHandles
       /\ \/ Session("a")
          \/ Subscription("a", "t")
          \/ RequestSend("a", TRUE, None)
    \/ RegisterOnSubscription
    \/ Cancel
    \/ phase < MaxPhase /\ (OnConnectionReady \/ OnConnectionLost)
    \/ \E messageref \in 0..next_messageref, status \in MessageStatuses :
           MockDownstreamMessage(messageref, status)

SpecMessageref == Init /\ [][NextMessageref]_vars

\* Sessions, the requests that wait in the backlog beside them, the calls and
\* interests that the server sends, and the link
NextCalls ==
    \/ /\ Len(handles) < MaxHandles
       /\ \/ \E name \in Names : Session(name)
          \/ RequestSend("a", FALSE, Some(2))
    \/ RegisterOnSession
    \/ Cancel
    \/ phase < MaxPhase /\ (OnConnectionReady \/ OnConnectionLost)
    \/ \E name \in DownstreamNames : MockDownstreamCall(name)
    \/ \E name \in DownstreamNames, topic \in InterestTopics, status \in InterestStatuses :
           MockDownstreamInterest(name, topic, status)

SpecCalls == Init /\ [][NextCalls]_vars

\* Sessions, subscriptions and requests made with names of every kind, and the
\* link
NextNames ==
    \/ /\ Len(handles) < MaxHandles
       /\ \E name \in AllNames :
              \/ Session(name)
              \/ Subscription(name, "t")
              \/ \E bidirectional \in BOOLEAN : RequestSend(name, bidirectional, None)
    \/ phase < MaxPhase /\ (OnConnectionReady \/ OnConnectionLost)

SpecNames == Init /\ [][NextNames]_vars

\* Subscriptions of both modules, their cancels, the messages that the server
\* sends them, and the link
NextSubscriptions ==
    \/ /\ Len(handles) < MaxHandles
       /\ \/ Subscription("a", "t")
          \/ Subscribe("a", "t")
    \/ RegisterOnSubscription
    \/ Cancel
    \/ phase < MaxPhase /\ (OnConnectionReady \/ OnConnectionLost)
    \/ \E messageref \in 1..next_messageref, status \in MessageStatuses :
           MockDownstreamMessage(messageref, status)

SpecSubscriptions == Init /\ [][NextSubscriptions]_vars

\* The posts that the application makes on the calls and interests it was
\* handed, and the link
NextPosts ==
    \/ /\ Len(handles) < MaxQueued
       /\ \E postref \in Postrefs, ttl_arg \in TtlArgs :
              \/ \E unidirectional \in BOOLEAN : CallPost(unidirectional, postref, ttl_arg)
              \/ \E status \in InterestStatuses : InterestPost(status, postref, ttl_arg)
    \/ phase < MaxPhase /\ (OnConnectionReady \/ OnConnectionLost)

SpecPosts == Init /\ [][NextPosts]_vars

\* One request stub, the handlers registered on it, the requests sent from it
\* and the messages that answer them
NextStub ==
    \/ handles = <<>> /\ ChannelRequest("a")
    \/ \E s \in HandleIds, filter \in Filters : AddHandler(s, filter)
    \/ \E s \in HandleIds : Len(handles) < MaxStubHandles /\ StubSend(s, None)
    \/ phase < MaxPhase /\ (OnConnectionReady \/ OnConnectionLost)
    \/ \E messageref \in 1..next_messageref, status \in MessageStatuses :
           MockDownstreamMessage(messageref, status)

SpecStub == Init /\ [][NextStub]_vars

\* The backlog alone: requests and posts made by the application, the clock
\* and the link
NextBacklog ==
    \/ /\ Len(handles) < MaxQueued
       /\ \/ \E ttl \in TtlArgs : RequestSend("a", FALSE, ttl)
          \/ \E postref \in Postrefs, ttl \in PostTtls : Post(postref, ttl)
    \/ phase < MaxPhase /\ (OnConnectionReady \/ OnConnectionLost)
    \/ \E d \in SleepSteps : now + d <= MaxTime /\ Sleep(d)

SpecBacklog == Init /\ [][NextBacklog]_vars

----------------------------------------------------------------------------
(* An Encoder and a Decoder of their own *)

\* b'a', b't' and a payload of one byte
NameA == <<97>>
TopicT == <<116>>
Payload7 == <<7>>

\* the packets given to the encoder
Upstream(type, fields) == [type |-> type, fields |-> fields]

RequestPackets ==
    {Upstream("RequestPacket",
              [NoFields EXCEPT !.name = Some(NameA), !.unidirectional = Some(u),
                               !.messageref = m, !.timeout = t,
                               !.payload = Some(Payload7)]) :
        <<u, m, t>> \in {<<TRUE, None, None>>, <<TRUE, Some(258), None>>,
                         <<FALSE, Some(258), None>>, <<FALSE, Some(1), Some(1)>>}}

UpstreamPackets ==
    RequestPackets \cup
    {Upstream("PongPacket", NoFields),
     Upstream("QuitPacket", NoFields),
     Upstream("LoginPacket", [NoFields EXCEPT !.name = Some(NameA), !.enforce = Some(FALSE),
                                              !.standby = Some(TRUE),
                                              !.persist = Some(FALSE)]),
     Upstream("LogoutPacket", [NoFields EXCEPT !.name = Some(NameA)]),
     Upstream("PostPacket", [NoFields EXCEPT !.postref = Some(1),
                                             !.payload = Some(Payload7)]),
     Upstream("SubscribePacket", [NoFields EXCEPT !.messageref = Some(1),
                                                  !.name = Some(NameA),
                                                  !.topic = Some(TopicT)]),
     Upstream("UnsubscribePacket", [NoFields EXCEPT !.name = Some(NameA),
                                                    !.topic = Some(TopicT)])}

\* the packet object of the encoder for p
Encoded(p) ==
    LET f == p.fields
    IN  CASE p.type = "PongPacket" -> PongPacket
          [] p.type = "QuitPacket" -> QuitPacket
          [] p.type = "LoginPacket" ->
                LoginPacket(Val(f.name), Val(f.enforce), Val(f.standby), Val(f.persist))
          [] p.type = "LogoutPacket" -> LogoutPacket(Val(f.name))
          [] p.type = "RequestPacket" ->
                RequestPacket(Val(f.name), Val(f.unidirectional), f.messageref, f.timeout,
                              Val(f.payload))
          [] p.type = "PostPacket" -> PostPacket(Val(f.postref), Val(f.payload))
          [] p.type = "SubscribePacket" ->
                SubscribePacket(Val(f.messageref), Val(f.name), Val(f.topic))
          [] p.type = "UnsubscribePacket" -> UnsubscribePacket(Val(f.name), Val(f.topic))

\* the rest of the program while the codec is used on its own
CodecOnly ==
    UNCHANGED <<connection_ready, upstream_auto_resend, upstream_backlog, next_messageref,
                message_handlers, call_handlers, interest_handlers,
                connection_lost_handlers, now, handles, puts, upstream_verbs, phase,
                result, delivered, conn>>

\* Encoder.encode(packet)
Encode(p) ==
    /\ codec' = [codec EXCEPT !.enc = encode(@, Encoded(p)),
                              !.packets = Append(@, p),
                              !.frames = Append(@, get_chunk(Encoded(p))),
                              !.raised = None]
    /\ CodecOnly

\* BaseEncoder.write_to_socket(socket) where socket.send does accept
WriteToSocket(accept) ==
    /\ accept # None => Val(accept) <= Offered(codec.enc)
    /\ LET w == write_to_socket(codec.enc, accept)
       IN  codec' = [codec EXCEPT !.enc = w.encoder, !.accepted = @ \o w.sent,
                                  !.writes = @ + 1, !.raised = w.raised]
    /\ CodecOnly

\* the encoder alone: requests and pongs are encoded and the socket takes any
\* part of what it is offered, or fails
NextEncoder ==
    \/ \E p \in RequestPackets \cup {Upstream("PongPacket", NoFields)} :
           Len(codec.packets) < MaxFrames /\ Encode(p)
    \/ \E n \in 0..Offered(codec.enc) : codec.writes < MaxWrites /\ WriteToSocket(Some(n))
    \/ codec.writes < MaxWrites /\ WriteToSocket(None)

InitEncoder ==
    /\ InitCore
    /\ conn = MockedConnection
    /\ \E size \in {SmallChunk, chunksize} : codec = Codec(size)

SpecEncoder == InitEncoder /\ [][NextEncoder]_vars

\* the packets that the server sends, as the decoder is to return them
Downstream(type, fields) == [type |-> type, fields |-> fields]

DownstreamPackets ==
    {Downstream("PingPacket", NoFields),
     Downstream("ByeByePacket", NoFields),
     Downstream("WelcomePacket", [NoFields EXCEPT !.server_version = Some(1),
                                                  !.protocol_version = Some(1)]),
     Downstream("SessionPacket", [NoFields EXCEPT !.state = Some(2), !.name = Some(NameA)]),
     Downstream("MessagePacket", [NoFields EXCEPT !.status = Some(1),
                                                  !.messageref = Some(258)]),
     Downstream("MessagePacket", [NoFields EXCEPT !.status = Some(0),
                                                  !.messageref = Some(1),
                                                  !.payload = Some(Payload7)]),
     Downstream("CallPacket", [NoFields EXCEPT !.unidirectional = Some(TRUE),
                                               !.postref = Some(1), !.name = Some(NameA),
                                               !.payload = Some(Payload7)]),
     Downstream("InterestPacket", [NoFields EXCEPT !.status = Some(1), !.postref = Some(1),
                                                   !.name = Some(NameA),
                                                   !.topic = Some(TopicT)])}

\* the frame of tests/nxtcp_packet_definition.py for q
Framed(q) ==
    LET f == q.fields
    IN  CASE q.type = "PingPacket" -> packets_ping
          [] q.type = "ByeByePacket" -> packets_byebye
          [] q.type = "WelcomePacket" -> packets_welcome
          [] q.type = "SessionPacket" -> packets_session(Val(f.name), Val(f.state))
          [] q.type = "MessagePacket" ->
                packets_message(Val(f.messageref), Val(f.status), f.payload)
          [] q.type = "CallPacket" ->
                packets_call(Val(f.unidirectional), Val(f.postref), Val(f.name),
                             Val(f.payload))
          [] q.type = "InterestPacket" ->
                packets_interest(Val(f.postref), Val(f.name), Val(f.status), Val(f.topic))

\* frames with a known type and a field that is longer than the body: a SESSION
\* whose name has length 5 in a body of 3 bytes, and a MESSAGE whose payload has
\* length 9 in a body of 10 bytes
OverlongString == pack_I(3) \o <<PACKET_SESSION, 2, 5, 97>>
OverlongBlob == (pack_I(10) \o <<PACKET_MESSAGE, 0>>) \o pack_I(1) \o pack_I(9) \o <<7>>

\* what the server may send: "down" is a packet of the protocol framed as the
\* protocol says, "echo" the frame that the encoder makes for a packet of the
\* client, "bad" a frame with an overlong field
ServerItems ==
    {[kind |-> "down", packet |-> q, frame |-> Framed(q)] : q \in DownstreamPackets}
    \cup {[kind |-> "echo", packet |-> p, frame |-> get_chunk(Encoded(p))] :
              p \in UpstreamPackets}
    \cup {[kind |-> "bad", packet |-> Downstream("SessionPacket", NoFields),
           frame |-> OverlongString],
          [kind |-> "bad", packet |-> Downstream("MessagePacket", NoFields),
           frame |-> OverlongBlob]}

\* the server sends a frame
ServerSends(item) ==
    /\ codec' = [codec EXCEPT !.sent = Append(@, item), !.wire = @ \o item.frame,
                              !.returned = None]
    /\ CodecOnly

\* BaseDecoder.add_chunk(chunk) with the next k bytes that the server sent, as
\* read_from_socket does with what recv returns
AddChunk(k) ==
    /\ codec' = [codec EXCEPT !.dec = add_chunk(@, SubSeq(codec.wire, 1, k)),
                              !.wire = SubSeq(@, k + 1, Len(@)),
                              !.fed = @ \o SubSeq(codec.wire, 1, k),
                              !.returned = None]
    /\ CodecOnly

\* Decoder.decode()
Decode ==
    /\ LET r == decode(codec.dec)
           outcome == [packet |-> r.packet, raised |-> r.raised]
       IN  codec' = [codec EXCEPT !.dec = r.decoder,
                                  !.decoded = IF r.packet = None /\ r.raised = None
                                              THEN @ ELSE Append(@, outcome),
                                  !.returned = Some(outcome)]
    /\ CodecOnly

\* the server sends a frame, it arrives in one chunk and decode is called
RoundTrip(item) ==
    /\ LET r == decode(add_chunk(codec.dec, item.frame))
           outcome == [packet |-> r.packet, raised |-> r.raised]
       IN  codec' = [codec EXCEPT !.dec = r.decoder,
                                  !.sent = Append(@, item),
                                  !.fed = @ \o item.frame,
                                  !.decoded = IF r.packet = None /\ r.raised = None
                                              THEN @ ELSE Append(@, outcome),
                                  !.returned = Some(outcome)]
    /\ CodecOnly

\* the frames of the stream that comes in chunks: PING, SESSION, the overlong
\* SESSION and the PONG of the encoder
StreamItems ==
    {item \in ServerItems :
        \/ item.kind = "down" /\ item.packet.type \in {"PingPacket", "SessionPacket"}
        \/ item.frame = OverlongString
        \/ item.kind = "echo" /\ item.packet.type = "PongPacket"}

\* the decoder alone: the server sends frames, they arrive in chunks of any
\* size, and decode is called at any time
NextDecoder ==
    \/ \E item \in StreamItems : Len(codec.sent) < MaxFrames /\ ServerSends(item)
    \/ \E k \in 1..Len(codec.wire) : Len(codec.dec.chunkbuffer) < MaxChunks /\ AddChunk(k)
    \/ Decode

InitDecoder ==
    /\ InitCore
    /\ conn = MockedConnection
    /\ codec = Codec(chunksize)

SpecDecoder == InitDecoder /\ [][NextDecoder]_vars

\* every frame on its own: each packet of the server, each frame that the
\* encoder makes and each frame with an overlong field goes through the decoder
NextRoundTrip == \E item \in ServerItems : Len(codec.sent) < MaxTrips /\ RoundTrip(item)

SpecRoundTrip == InitDecoder /\ [][NextRoundTrip]_vars

----------------------------------------------------------------------------
(* NxtcpConnection (nervix/protocols/nxtcp/connection.py) on the Mainloop     *)
(* (nervix/mainloop/mainloop.py).  conn is then a record of the fields of the *)
(* connection object.  Time is kept as the seconds left to each deadline: a   *)
(* timer field holds the time left to the deadline of its last set() (0 once  *)
(* it has passed), and timer_deadlines the time left to each deadline that    *)
(* waits in the loop, so that the clock itself is no part of the state.       *)
(* socket, proxy and encoder say whether the socket is open, the proxy        *)
(* registered and the encoder and decoder present.  ready_calls and states    *)
(* hold the calls of the ready handler and the values assigned to state by    *)
(* the last step, readies the values assigned to ready by the last step, and  *)
(* expired_timer the timer whose handler it ran; nfailed counts the entries   *)
(* into Failed since the last successful connect, up to MaxFailed, and        *)
(* i_before_connect is the cool-down index that connect found.  dec is the    *)
(* decoder of the connection, enc its encoder.                                *)

timeout_timeout == 3
welcome_timeout == 2
cooldown_timeouts == <<5, 5, 5, 10, 10, 20, 30, 60>>

\* the results of socket.connect_ex in do_connect
ConnectResults == {"EINPROGRESS", "ERROR"}

\* Timer.set(timeout): a new deadline waits in the loop, those set before are
\* not cancelled
TimerSet(c, timer, timeout) ==
    [c EXCEPT ![timer] = Some(timeout),
              !.timer_deadlines = @ \cup {<<timeout, timer>>}]

\* Timer.has_expired(): the deadline of the last set() has passed
has_expired(c, timer) == c[timer] # None /\ Val(c[timer]) = 0

\* "self.state = ..."
SetState(c, state) == [c EXCEPT !.state = state, !.states = Append(@, state)]

\* "self.ready_handler(self.ready)", the handler being
\* Core.__on_connection_ready: the call comes from inside the step of the
\* connection, so what the handler does is done before the step goes on
CallReadyHandler(c, ready) ==
    on_connection_ready([c EXCEPT !.ready_calls = Append(@, ready)], ready)

\* __update_ready telling the handler of no loss of readiness
UpdateReadySilentLoss(c, ready) ==
    LET c1 == [c EXCEPT !.ready = Some(ready), !.readies = Append(@, ready)]
    IN  IF c.ready # Some(ready) /\ c.ready_handler /\ ready
        THEN CallReadyHandler(c1, ready) ELSE c1

\* NxtcpConnection.__update_ready(state)
update_ready(c, ready) ==
    LET c1 == [c EXCEPT !.ready = Some(ready), !.readies = Append(@, ready)]
    IN  IF c.ready # Some(ready) /\ c.ready_handler
        THEN CallReadyHandler(c1, ready) ELSE c1

\* do_connect; res is what connect_ex returns
do_connect(c, res) ==
    LET c1 == [c EXCEPT !.socket = "open", !.proxy = TRUE, !.write_interest = TRUE,
                        !.connect_failed = FALSE, !.connect_success = FALSE]
        c2 == IF res = "EINPROGRESS"
              THEN TimerSet(c1, "timeout_timer", timeout_timeout)
              ELSE [c1 EXCEPT !.connect_failed = TRUE]
    IN  SetState(c2, "CONNECTING")

\* "self.state = ..." after a call that an exception may have left
StateAfter(c, state) == IF c.raised # None THEN c ELSE SetState(c, state)

\* the connect success taken for the welcome of the server
SkipWelcome(c) == StateAfter(update_ready(c, TRUE), "READY")

\* do_wait_welcome
do_wait_welcome(c) ==
    SetState([TimerSet(c, "welcome_timer", welcome_timeout)
                 EXCEPT !.welcome_received = FALSE, !.byebye_received = FALSE],
             "WAIT_WELCOME")

\* do_ready
do_ready(c) == StateAfter(update_ready(c, TRUE), "READY")

\* the pointer into the cool-down list running on past its end
NextCooldownWrapping(i) == (i + 1) % Len(cooldown_timeouts)

\* "if self.cooldown_timeout_i < len(self.cooldown_timeouts) - 1:
\*      self.cooldown_timeout_i += 1"
NextCooldown(i) == IF i < Len(cooldown_timeouts) - 1 THEN i + 1 ELSE i

\* do_failed arming no cool-down timer
DoFailedNoCooldown(c) ==
    LET c1 == [c EXCEPT !.encoder = FALSE, !.enc = BaseEncoder(chunksize),
                        !.dec = BaseDecoder, !.proxy = FALSE, !.write_interest = FALSE, !.socket = "closed"]
        c3(c2) == [c2 EXCEPT !.cooldown_timeout_i = NextCooldown(@),
                            !.nfailed = IF @ < MaxFailed THEN @ + 1 ELSE @]
        failed(c2) == IF c2.raised # None THEN c2 ELSE SetState(c3(c2), "FAILED")
    IN  failed(update_ready(c1, FALSE))

\* do_failed
do_failed(c) ==
    LET c1 == [c EXCEPT !.encoder = FALSE, !.enc = BaseEncoder(chunksize),
                        !.dec = BaseDecoder, !.proxy = FALSE, !.write_interest = FALSE, !.socket = "closed"]
        timeout(c2) == cooldown_timeouts[c2.cooldown_timeout_i + 1]
        c3(c2) == [c2 EXCEPT !.cooldown_timeout_i = NextCooldown(@),
                            !.nfailed = IF @ < MaxFailed THEN @ + 1 ELSE @]
        failed(c2) == IF c2.raised # None THEN c2
                      ELSE SetState(TimerSet(c3(c2), "cooldown_timer", timeout(c2)),
                                    "FAILED")
    IN  failed(update_ready(c1, FALSE))

\* the WaitWelcome branch of evaluate_state never looking at the welcome timer
WaitWelcomeForever(c) ==
    IF c.welcome_received THEN do_ready(c)
    ELSE IF c.connect_failed THEN do_failed(c)
    ELSE IF c.byebye_received THEN do_failed(c)
    ELSE c

\* the WaitWelcome branch of evaluate_state
WaitWelcomeBranch(c) ==
    IF c.welcome_received THEN do_ready(c)
    ELSE IF has_expired(c, "welcome_timer") THEN do_failed(c)
    ELSE IF c.connect_failed THEN do_failed(c)
    ELSE IF c.byebye_received THEN do_failed(c)
    ELSE c

\* the Ready branch of evaluate_state not looking at byebye_received
ReadyIgnoringByebye(c) == IF c.connect_failed THEN do_failed(c) ELSE c

\* the Ready branch of evaluate_state
ReadyBranch(c) ==
    IF c.connect_failed THEN do_failed(c)
    ELSE IF c.byebye_received THEN do_failed(c)
    ELSE c

\* evaluate_state, and do_idle which calls it again
RECURSIVE evaluate_state(_, _)
do_idle(c, res) == evaluate_state(SetState(c, "IDLE"), res)

\* the Failed branch of evaluate_state not waiting for the cool-down timer
LeaveFailedAtOnce(c, res) == do_idle(c, res)

\* the Failed branch of evaluate_state
LeaveFailed(c, res) ==
    IF has_expired(c, "cooldown_timer") THEN do_idle(c, res) ELSE c

evaluate_state(c, res) ==
    CASE c.state = "IDLE" -> do_connect(c, res)
      [] c.state = "CONNECTING" ->
            IF has_expired(c, "timeout_timer") THEN do_failed(c)
            ELSE IF c.connect_failed THEN do_failed(c)
            ELSE IF c.connect_success THEN do_wait_welcome(c)
            ELSE c
      [] c.state = "WAIT_WELCOME" -> WaitWelcomeBranch(c)
      [] c.state = "READY" -> ReadyBranch(c)
      [] c.state = "FAILED" -> LeaveFailed(c, res)

\* the connect leaving the cool-down pointer where it is
KeepCooldown(i) == i

\* __on_connect: "self.cooldown_timeout_i = 0"
ResetCooldown(i) == 0

\* __on_connect; ok says whether connect_ex returns 0
on_connect(c, ok, res) ==
    evaluate_state(
        IF ok
        THEN [c EXCEPT !.connect_success = TRUE,
                       !.i_before_connect = c.cooldown_timeout_i,
                       !.cooldown_timeout_i = ResetCooldown(@),
                       !.nfailed = 0,
                       !.encoder = TRUE, !.enc = BaseEncoder(chunksize),
                       !.dec = BaseDecoder, !.write_interest = FALSE]
        ELSE [c EXCEPT !.connect_failed = TRUE],
        res)

\* __on_welcome_packet, __on_byebye_packet, and the end of __on_read when the
\* socket gave zero bytes
on_welcome_packet(c, res) == evaluate_state([c EXCEPT !.welcome_received = TRUE], res)
on_byebye_packet(c, res) == evaluate_state([c EXCEPT !.byebye_received = TRUE], res)
on_read_closed(c, res) == evaluate_state([c EXCEPT !.connect_failed = TRUE], res)

\* a ping answered with no pong
PingUnanswered(c) == [c EXCEPT !.write_interest = TRUE]

\* __on_ping_packet: a PongPacket is encoded and proxy.start_writing() called
on_ping_packet(c) == [c EXCEPT !.enc = encode(@, PongPacket), !.write_interest = TRUE]

\* "if self.downstream_handler: self.downstream_handler(verb)", the handler
\* being Core.__on_incoming_verb
CallDownstream(c, verb) == IF c.downstream_handler THEN on_incoming_verb(c, verb) ELSE c

\* "[...][packet.state]", "[...][packet.status]": the constant of the verb at
\* this place of the list, IndexError past its end
Indexed(c, list, i, verb(_)) ==
    IF i + 1 > Len(list) THEN [c EXCEPT !.raised = Some("IndexError")]
    ELSE CallDownstream(c, verb(list[i + 1]))

\* __on_session_packet
on_session_packet(c, packet) ==
    Indexed(c, <<"ENDED", "STANDBY", "ACTIVE">>, Val(packet.fields.state),
            LAMBDA state : SessionVerb(Val(packet.fields.name), state))

\* __on_call_packet: "postref=packet.postref if not packet.unidirectional else None"
on_call_packet(c, packet) ==
    CallDownstream(c, CallVerb(Val(packet.fields.unidirectional),
                           IF Val(packet.fields.unidirectional) THEN None
                           ELSE packet.fields.postref,
                           Val(packet.fields.name), Val(packet.fields.payload)))

\* __on_message_packet
on_message_packet(c, packet) ==
    Indexed(c, <<"OK", "TIMEOUT", "UNREACHABLE">>, Val(packet.fields.status),
            LAMBDA status : MessageVerb(Val(packet.fields.messageref), status,
                                        packet.fields.payload))

\* __on_interest_packet
on_interest_packet(c, packet) ==
    Indexed(c, <<"NO_INTEREST", "INTEREST">>, Val(packet.fields.status),
            LAMBDA status : InterestVerb(Val(packet.fields.postref),
                                         Val(packet.fields.name), status,
                                         Val(packet.fields.topic)))

\* handle_packet: "handler = self.packet_handlers.get(type(packet), None)",
\* NotImplementedError for a packet without handler
handle_packet(c, packet, res) ==
    CASE packet.type = "WelcomePacket" -> on_welcome_packet(c, res)
      [] packet.type = "PingPacket" -> on_ping_packet(c)
      [] packet.type = "ByeByePacket" -> on_byebye_packet(c, res)
      [] packet.type = "SessionPacket" -> on_session_packet(c, packet)
      [] packet.type = "CallPacket" -> on_call_packet(c, packet)
      [] packet.type = "MessagePacket" -> on_message_packet(c, packet)
      [] packet.type = "InterestPacket" -> on_interest_packet(c, packet)
      [] OTHER -> [c EXCEPT !.raised = Some("NotImplementedError")]

\* "while self.decoder: packet = self.decoder.decode(); if not packet: break;
\* self.handle_packet(packet)": do_failed takes the decoder away, and an
\* exception of decode or of handle_packet is caught nowhere, it ends the
\* handler and goes to the caller of the loop with the frame committed
RECURSIVE DecodeLoop(_, _)
DecodeLoop(c, res) ==
    IF ~c.encoder \/ c.raised # None THEN c
    ELSE LET r == decode(c.dec)
             read == [c EXCEPT !.dec = r.decoder]
         IN  IF r.raised # None THEN [read EXCEPT !.raised = r.raised]
             ELSE IF r.packet = None THEN read
             ELSE DecodeLoop(handle_packet(read, Val(r.packet), res), res)

\* __on_read: recv gives bytes, or no byte as the peer has closed the socket
\* (Some(bytes)), or raises an OSError (None), which read_from_socket takes for
\* no byte; the chunk joins what the decoder of the connection holds
on_read(c, recv, res) ==
    LET chunk == IF recv = None THEN <<>> ELSE Val(recv)
        after(looped) == IF looped.raised # None THEN looped
                         ELSE IF Len(chunk) = 0 THEN on_read_closed(looped, res)
                         ELSE looped
    IN  after(DecodeLoop([c EXCEPT !.dec = add_chunk(@, chunk)], res))

\* __on_write where socket.send does accept (see write_to_socket): an exception
\* of send is caught nowhere; "if n == 0: self.proxy.stop_writing()"
on_write(c, accept) ==
    LET w == write_to_socket(c.enc, accept)
    IN  IF w.raised # None
        THEN [c EXCEPT !.enc = w.encoder, !.raised = w.raised]
        ELSE [c EXCEPT !.enc = w.encoder,
                       !.write_interest = IF w.n = 0 THEN FALSE ELSE @]

\* the object before the end of NxtcpConnection.__init__
FreshConnection ==
    [state |-> "IDLE", ready |-> None, ready_handler |-> FALSE,
     downstream_handler |-> FALSE, core |-> None,
     cooldown_timeout_i |-> 0,
     connect_success |-> FALSE, connect_failed |-> FALSE,
     welcome_received |-> FALSE, byebye_received |-> FALSE,
     socket |-> "none", proxy |-> FALSE, encoder |-> FALSE,
     enc |-> BaseEncoder(chunksize), dec |-> BaseDecoder, write_interest |-> FALSE,
     raised |-> None,
     timeout_timer |-> None, welcome_timer |-> None, cooldown_timer |-> None,
     timer_deadlines |-> {}, expired_timer |-> None,
     ready_calls |-> <<>>, readies |-> <<>>, states |-> <<"IDLE">>, nfailed |-> 0, i_before_connect |-> 0]

\* NxtcpConnection.__init__: "self.__update_ready(False)", "self.state = State.IDLE",
\* "self.evaluate_state()"
NxtcpConnection(res) == evaluate_state(update_ready(FreshConnection, FALSE), res)

InitNxtcp ==
    /\ InitCore
    /\ \E res \in ConnectResults : conn = NxtcpConnection(res)
    /\ codec = Codec(chunksize)

\* a step starts with no call and no assignment made
Begin(c) ==
    [c EXCEPT !.ready_calls = <<>>, !.readies = <<>>, !.states = <<>>,
              !.expired_timer = None,
              !.raised = None]

\* a handler of the connection is entered: the step starts, with the Core as
\* it is and the order in which the step iterates over connection_lost_handlers
Enter(order) == [Begin(conn) EXCEPT !.core = TheCore(order)]

\* a step of the connection that leaves it as c, the ready handler being
\* Core.__on_connection_ready and the downstream handler Core.__on_incoming_verb;
\* the changes of readiness are counted up to MaxPhase
ConnStep(c) ==
    \E after \in {c} :
        /\ after.core.phase <= MaxPhase
        /\ conn' = [after EXCEPT !.core = None]
        /\ CoreBecomes(after.core)
        /\ UNCHANGED <<codec, now>>

\* set_ready_handler always passing False
InstallWithFalse(c) == CallReadyHandler([c EXCEPT !.ready_handler = TRUE], FALSE)

\* set_ready_handler(handler): "self.ready_handler(self.ready)"
set_ready_handler(c) == CallReadyHandler([c EXCEPT !.ready_handler = TRUE], Val(c.ready))

\* set_downstream_handler(handler)
set_downstream_handler(c) ==
    IF c.raised # None THEN c ELSE [c EXCEPT !.downstream_handler = TRUE]

\* Channel(connection): Core.__init__ installs its ready handler and then its
\* downstream handler
SetReadyHandler ==
    /\ ~conn.ready_handler
    /\ \E order \in LostOrders :
           ConnStep(set_downstream_handler(set_ready_handler(Enter(order))))

\* a timer of the loop is due
TimerDue == \E e \in conn.timer_deadlines : e[1] = 0

\* Mainloop.run_once: a timer that has expired is taken from the loop and its
\* handler, evaluate_state, is called
OnTimer ==
    \E e \in conn.timer_deadlines :
        /\ e[1] = 0
        /\ \E res \in ConnectResults, order \in LostOrders :
               ConnStep(evaluate_state([Enter(order) EXCEPT !.timer_deadlines = @ \ {e},
                                                            !.expired_timer = Some(e[2])],
                                       res))

\* Mainloop.run_once: the socket is writable while the write handler is
\* __on_connect; the timers that have expired are handled before socket events
OnConnect(ok) ==
    /\ ~TimerDue
    /\ conn.state = "CONNECTING" /\ conn.proxy
    /\ conn.connect_failed => ~ok
    /\ \E res \in ConnectResults, order \in LostOrders :
           ConnStep(on_connect(Enter(order), ok, res))

Packets == {"WELCOME", "BYEBYE", "WELCOME_BYEBYE", "EOF"}

\* frames of verbs for the session "a": an INTEREST and a NO_INTEREST for the
\* topic b"t1", a bidirectional CALL, a MESSAGE with status OK, a SESSION
\* (active); an INTEREST in one read with the WELCOME before it or the BYEBYE
\* after it; an INTEREST with postref 0, which validate() refuses, and one with
\* a status that InterestVerb has no constant for
VerbPackets ==
    {"INTEREST_1", "NO_INTEREST_1", "CALL", "MESSAGE",
     "SESSION", "WELCOME_INTEREST", "INTEREST_BYEBYE", "INTEREST_REF0", "INTEREST_STATUS2"}

\* the frame of an INTEREST packet for the session "a" and the topic b"t1"
InterestFrame(postref, status) == packets_interest(postref, <<97>>, status, <<116, 49>>)

\* what recv gives when the peer has sent the packet, or the two packets, and
\* nothing else, or has closed the socket ("EOF")
PacketRecv(packet) ==
    CASE packet = "WELCOME" -> Some(packets_welcome)
      [] packet = "BYEBYE" -> Some(packets_byebye)
      [] packet = "WELCOME_BYEBYE" -> Some(packets_welcome \o packets_byebye)
      [] packet = "EOF" -> Some(<<>>)
      [] packet = "INTEREST_1" -> Some(InterestFrame(1, 1))
      [] packet = "NO_INTEREST_1" -> Some(InterestFrame(1, 0))
      [] packet = "CALL" -> Some(packets_call(FALSE, 1, <<97>>, <<55>>))
      [] packet = "MESSAGE" -> Some(packets_message(1, 0, Some(<<55>>)))
      [] packet = "SESSION" -> Some(packets_session(<<97>>, 2))
      [] packet = "WELCOME_INTEREST" -> Some(packets_welcome \o InterestFrame(1, 1))
      [] packet = "INTEREST_BYEBYE" -> Some(InterestFrame(1, 1) \o packets_byebye)
      [] packet = "INTEREST_REF0" -> Some(InterestFrame(0, 1))
      [] packet = "INTEREST_STATUS2" -> Some(InterestFrame(1, 2))

\* Mainloop.run_once: the socket is readable while the read handler is
\* __on_read, and recv gives whole frames, or zero bytes ("EOF")
OnRead(packet) ==
    /\ ~TimerDue
    /\ conn.proxy /\ conn.encoder
    /\ \E res \in ConnectResults, order \in LostOrders :
           ConnStep(on_read(Enter(order), PacketRecv(packet), res))

\* an expiry after the origin of the clock has moved on by a second, the clock
\* being at MaxTime: a second less, unless it has passed already ("now >
\* expire"); then it is kept, it stays passed as now stays, and stays truthy
\* ("if expire and ...": no expiry the Core sets is 0, ttl > 0 being added to
\* the clock)
Shifted(t) == IF t = None \/ Val(t) < MaxTime THEN t ELSE Some(Val(t) - 1)

\* the clock value at which a verb was enqueued after the origin of the clock
\* has moved on by a second: a second less, unless enqueued + ttl has passed
ShiftedEnqueued(hd) ==
    IF hd.enqueued = None \/ Val(hd.enqueued) + Val(hd.ttl) < MaxTime
    THEN hd.enqueued
    ELSE Some(Val(hd.enqueued) - 1)

\* time.monotonic() a second later.  The Core reads the clock to set an expiry
\* ("expires = time.monotonic() + ttl") and to compare it with one ("now >
\* expire"), so only differences of times count: from MaxTime on the origin of
\* the clock moves on with it, now stays and the times held that have not
\* passed are a second less
ClockTick ==
    IF now < MaxTime
    THEN /\ now' = now + 1
         /\ UNCHANGED <<upstream_backlog, handles>>
    ELSE /\ now' = now
         /\ upstream_backlog' = [i \in 1..Len(upstream_backlog) |->
                                    <<upstream_backlog[i][1], Shifted(upstream_backlog[i][2])>>]
         /\ handles' = [h \in HandleIds |->
                           [handles[h] EXCEPT !.enqueued = ShiftedEnqueued(handles[h])]]

\* one second less is left to a deadline
Less(o) == IF o = None \/ Val(o) = 0 THEN o ELSE Some(Val(o) - 1)

\* the connection a second later, no timer being due
Elapse(c) ==
    [c EXCEPT !.timeout_timer = Less(@), !.welcome_timer = Less(@),
              !.cooldown_timer = Less(@),
              !.timer_deadlines = {<<e[1] - 1, e[2]>> : e \in @}]

\* a second passes with no event; the loop sleeps no longer than to the next
\* deadline
Tick ==
    /\ ~TimerDue
    /\ conn' = Elapse(Begin(conn))
    /\ ClockTick
    /\ puts' = <<>> /\ upstream_verbs' = <<>> /\ result' = "None" /\ delivered' = <<>>
    /\ UNCHANGED <<codec, connection_ready, upstream_auto_resend, next_messageref,
                   message_handlers, call_handlers, interest_handlers,
                   connection_lost_handlers, phase>>

\* the connection alone with its observer
NextConn ==
    \/ SetReadyHandler
    \/ OnTimer
    \/ \E ok \in BOOLEAN : OnConnect(ok)
    \/ \E packet \in Packets : OnRead(packet)
    \/ Tick

SpecConn == InitNxtcp /\ [][NextConn]_vars

\* Mainloop.run_once sleeps no longer than to the next deadline and then calls
\* the handler of every timer that is due: time passes and the timers fire.
\* Whether the socket becomes readable or writable is up to the peer and the
\* operating system: the socket events have no fairness.
FairConn == SpecConn /\ WF_vars(Tick) /\ WF_vars(OnTimer)

\* the WELCOME frame coming in two reads
WelcomeHead == SubSeq(packets_welcome, 1, SplitAt)
WelcomeTail == SubSeq(packets_welcome, SplitAt + 1, Len(packets_welcome))

\* what recv may do: give the WELCOME, PING or BYEBYE frame, two frames at
\* once, a part of a frame, the PONG frame of the encoder (a type the decoder
\* does not know), the SESSION frame with the overlong name, or no byte (the
\* peer has closed), or raise an OSError
Recvs ==
    {Some(packets_welcome), Some(packets_ping), Some(packets_byebye),
     Some(packets_welcome \o packets_ping), Some(packets_ping \o packets_ping),
     Some(packets_welcome \o packets_byebye), Some(WelcomeHead), Some(WelcomeTail),
     Some(get_chunk(PongPacket)), Some(OverlongString), Some(<<>>), None}

\* the peer sends whole frames, of which recv may give a part: the rest of a
\* frame comes after its beginning and before anything else, unless the peer
\* closes the socket or recv raises
InStream(d, recv) ==
    IF d.buff = <<>> /\ d.chunkbuffer = <<>>
    THEN recv # Some(WelcomeTail)
    ELSE recv \in {Some(WelcomeTail), Some(<<>>), None}

\* the PING frames in the bytes
RECURSIVE Pings(_)
Pings(bytes) ==
    IF Len(bytes) < Len(packets_ping) THEN 0
    ELSE IF SubSeq(bytes, 1, Len(packets_ping)) = packets_ping
         THEN 1 + Pings(SubSeq(bytes, Len(packets_ping) + 1, Len(bytes)))
         ELSE Pings(Tail(bytes))

\* Mainloop.run_once: the socket is readable while the read handler is
\* __on_read; pings are taken while no more than MaxPongs chunks come to wait
\* in the encoder
OnReadFrame(recv) ==
    /\ ~TimerDue
    /\ conn.proxy /\ conn.encoder
    /\ recv # None => Len(conn.enc.chunkbuffer) + Pings(Val(recv)) <= MaxPongs
    /\ InStream(conn.dec, recv)
    /\ \E res \in ConnectResults, order \in LostOrders :
           ConnStep(on_read(Enter(order), recv, res))

\* Mainloop.run_once: the socket is writable while the write handler is
\* __on_write and the proxy is interested in writing; writes are taken while
\* fewer than MaxFetched bytes of the current chunk have been fetched
OnWrite(accept) ==
    /\ ~TimerDue
    /\ conn.proxy /\ conn.encoder /\ conn.write_interest
    /\ IF NoCurrentChunk(conn.enc) THEN TRUE ELSE Val(conn.enc.fetchpos) < MaxFetched
    /\ accept # None => Val(accept) <= Offered(conn.enc)
    /\ ConnStep(on_write(Enter(<<>>), accept))

\* the connection with its observer, the frames it reads and the bytes it
\* writes, until it has failed MaxWireFailed times in a row
NextWire ==
    \/ SetReadyHandler
    \/ OnTimer
    \/ \E ok \in BOOLEAN : OnConnect(ok)
    \/ \E recv \in Recvs : OnReadFrame(recv)
    \/ \E n \in 0..Offered(conn.enc) : OnWrite(Some(n))
    \/ OnWrite(None)
    \/ conn.nfailed < MaxWireFailed /\ Tick

SpecWire == InitNxtcp /\ [][NextWire]_vars

\* the application registers on a session a handler that sends a verb when it
\* is called
RegisterReacting ==
    /\ Registered(handles) < MaxRegistered
    /\ \E h \in HandleIds :
           \/ \E reaction \in Reactions \ {"none"} :
                  add_interest_handler(h, InterestStatus_ANY, reaction)
           \/ add_call_handler(h, "post")

\* a frame of a verb is read while fewer than MaxPongs chunks wait in the
\* encoder of the connection and fewer than MaxLinkBacklog verbs in the backlog
ReadsVerb ==
    /\ Len(conn.enc.chunkbuffer) < MaxPongs
    /\ Len(upstream_backlog) < MaxLinkBacklog
    /\ \E packet \in VerbPackets : OnRead(packet)

\* the connection, the channel on it, a session and a handler on it
NextLink ==
    \/ SetReadyHandler
    \/ conn.ready_handler /\ Len(handles) < MaxSessions /\ Session("a")
    \/ RegisterReacting
    \/ OnTimer
    \/ \E ok \in BOOLEAN : OnConnect(ok)
    \/ \E packet \in Packets : OnRead(packet)
    \/ ReadsVerb
    \/ Tick

SpecLink == InitNxtcp /\ [][NextLink]_vars

----------------------------------------------------------------------------
(* Vocabulary of the properties *)

IsAutoResendVerb(v) == v.type \in {"Login", "Subscribe"}
IsTtlVerb(v) == v.type \in {"Request", "Post"}

\* the step is a transition into Ready, and so upstream_verbs' is what it flushed
IntoReady == ~connection_ready /\ connection_ready'

\* the step is a call of cancel() on the handle h
CancelOf(h) == Live(h) /\ handles'[h].cancelled

\* the verb waits in the backlog bl
InBacklog(bl, verb) == \E i \in 1..Len(bl) : bl[i][1] = verb

\* the handle kinds whose verb is enqueued with auto_resend, and with a ttl
AutoResendHandle(hd) == hd.kind \in {"session", "subscription"}
TtlHandle(hd) == hd.kind \in {"request", "post"}

\* the verbs of the handles numbered from h on that are enqueued with
\* auto_resend and not cancelled, in the order of their put_upstream calls
RECURSIVE RegisteredFrom(_)
RegisteredFrom(h) ==
    IF h > Len(handles) THEN <<>>
    ELSE (IF AutoResendHandle(handles[h]) /\ ~handles[h].cancelled
          THEN <<handles[h].verb>> ELSE <<>>) \o RegisteredFrom(h + 1)

----------------------------------------------------------------------------
(* C1: in the verbs handed to the connection by one transition into Ready, *)
(* every auto-resend verb (Login, Subscribe) comes before every TTL-bound   *)
(* backlog verb (Request, Post).                                            *)
(* One step hands more than one verb to the connection only when it is a    *)
(* transition into Ready.                                                   *)
C1_AutoResendBeforeBacklog ==
    \A i, j \in 1..Len(upstream_verbs) :
        IsTtlVerb(upstream_verbs[i]) /\ IsAutoResendVerb(upstream_verbs[j]) => j < i

(* C2: a transition into Ready sends the auto-resend verbs in the order in *)
(* which they were registered through put_upstream, earliest first.         *)
C2_AutoResendInRegistrationOrder ==
    [][IntoReady => SelectSeq(upstream_verbs', IsAutoResendVerb) = RegisteredFrom(1)]_vars


(* C3: a request or post made while the link is not ready is handed to the  *)
(* connection by the next transition into Ready if and only if it was       *)
(* enqueued with ttl > 0 and the clock at that transition is no later than  *)
(* enqueue time + ttl; no other step hands it to the connection.            *)
C3_TtlBacklogSentIffUnexpired ==
    [][\A h \in 1..Len(handles') :
          LET hd == handles'[h]
          IN  (TtlHandle(hd) /\ hd.born % 2 = 0) =>
                  Count(upstream_verbs', hd.verb) =
                      IF /\ IntoReady
                         /\ hd.born = phase
                         /\ hd.ttl # None
                         /\ Val(hd.ttl) > 0
                         /\ now <= Val(hd.enqueued) + Val(hd.ttl)
                      THEN 1 ELSE 0]_vars

\* C3 witness: a request or post that waited in the backlog is sent by a
\* transition into Ready that happens exactly at its deadline
C3_Witness ==
    \E h \in HandleIds :
        /\ TtlHandle(handles[h]) /\ handles[h].born % 2 = 0
        /\ connection_ready /\ phase = handles[h].born + 1
        /\ handles[h].enqueued # None /\ Val(handles[h].ttl) > 0
        /\ now = Val(handles[h].enqueued) + Val(handles[h].ttl)
        /\ handles[h].nsent = 1
        /\ Count(upstream_verbs, handles[h].verb) = 1

(* C4: Core.cancel(verb) returns True if and only if the verb was waiting   *)
(* in the backlog at the call, and the verb is then no longer in the        *)
(* backlog.                                                                 *)
C4_CancelTrueIffInBacklog ==
    [][\A h \in HandleIds :
          CancelOf(h) =>
              /\ (result' = "True") <=> InBacklog(upstream_backlog, handles[h].verb)
              /\ ~InBacklog(upstream_backlog', handles[h].verb)]_vars


\* the step is a call of Session.cancel on the handle h
SessionCancelOf(h) == CancelOf(h) /\ handles[h].kind = "session"

\* v is the Logout of the session handle hd
IsLogoutOf(v, hd) == v.type = "Logout" /\ v.name = hd.verb.name

(* C5, as stated: Session.cancel hands exactly one Logout to the connection *)
(* if and only if the session's Login had been handed to the connection    *)
(* before the cancel, whatever the link state at the cancel.                *)
C5_LogoutIffLoginReachedWire ==
    [][\A h \in HandleIds :
          SessionCancelOf(h) =>
              IF handles[h].nsent > 0
              THEN Len(upstream_verbs') = 1 /\ IsLogoutOf(upstream_verbs'[1], handles[h])
              ELSE upstream_verbs' = <<>>]_vars

(* C5, amended: Session.cancel hands exactly one Logout to the connection   *)
(* if and only if the link is ready at the cancel, and then the Login had   *)
(* been handed to the connection; a cancel while the link is not ready      *)
(* sends no Logout, also when the Login had been sent on an earlier         *)
(* connection; no Logout waits in the backlog, and no other step sends one. *)
C5_LogoutIffReadyAtCancel ==
    [][/\ \A h \in HandleIds :
              SessionCancelOf(h) =>
                  IF connection_ready
                  THEN /\ Len(upstream_verbs') = 1
                       /\ IsLogoutOf(upstream_verbs'[1], handles[h])
                       /\ handles[h].nsent > 0
                  ELSE upstream_verbs' = <<>>
       /\ \A i \in 1..Len(upstream_verbs') :
              upstream_verbs'[i].type = "Logout" => \E h \in HandleIds : SessionCancelOf(h)
       /\ \A i \in 1..Len(upstream_backlog') : upstream_backlog'[i][1].type # "Logout"]_vars

\* C5 witness: a session whose Login was sent on an earlier connection is
\* cancelled while the link is not ready: the Logout is put and dropped
C5_Witness ==
    \E h \in HandleIds :
        /\ handles[h].kind = "session" /\ handles[h].cancelled
        /\ handles[h].nsent > 0
        /\ ~connection_ready
        /\ Len(puts) = 1 /\ IsLogoutOf(puts[1].verb, handles[h])
        /\ upstream_verbs = <<>> /\ upstream_backlog = <<>>

(* C6: a session or subscription that is created and cancelled while the    *)
(* link is not ready sends nothing: its cancel hands no verb to the         *)
(* connection and queues none, and no later step hands its Login or         *)
(* Subscribe to the connection (a transition into Ready sends an equal      *)
(* Login only for a later session of the same name that is not cancelled).  *)
C6_CancelledBeforeReadySendsNothing ==
    [][\A h \in HandleIds :
          AutoResendHandle(handles[h]) =>
              /\ (CancelOf(h) /\ ~connection_ready /\ handles[h].born = phase) =>
                     /\ handles[h].nsent = 0
                     /\ upstream_verbs' = <<>>
                     /\ upstream_backlog' = upstream_backlog
              /\ (handles[h].cancelled /\ handles[h].nsent = 0) =>
                     /\ handles'[h].nsent = 0
                     /\ IntoReady =>
                            Count(upstream_verbs', handles[h].verb) =
                                Count(RegisteredFrom(1), handles[h].verb)]_vars

\* C6 witness: the link has become ready after a subscription or session was
\* created and cancelled, and nothing was sent
C6_Witness ==
    \E h \in HandleIds :
        /\ AutoResendHandle(handles[h]) /\ handles[h].cancelled
        /\ handles[h].born % 2 = 0 /\ phase = handles[h].born + 1
        /\ connection_ready
        /\ handles[h].nsent = 0
        /\ upstream_verbs = <<>> /\ puts = <<>> /\ result = "None"


\* the step is a call of Subscription.cancel on the handle h
SubscriptionCancelOf(h) == CancelOf(h) /\ handles[h].kind = "subscription"

\* v is the Unsubscribe of the subscription handle hd
IsUnsubscribeOf(v, hd) ==
    v.type = "Unsubscribe" /\ v.name = hd.verb.name /\ v.topic = hd.verb.topic

\* the number of Ready periods between the phases from and to, both included
ReadyPeriods(from, to) == ((to + 1) \div 2) - (from \div 2)

\* the cancel of the subscription handle h hands over exactly one Unsubscribe
\* with its name and topic
CancelUnsubscribes(h) ==
    /\ Len(upstream_verbs') = 1
    /\ IsUnsubscribeOf(upstream_verbs'[1], handles[h])
    /\ handles'[h].nsent = handles[h].nsent

\* no step hands over anything of the cancelled subscription handle h
NothingAfterCancel(h) ==
    /\ Count(upstream_verbs', handles[h].verb) = 0
    /\ \A i \in 1..Len(upstream_verbs') :
           ~IsUnsubscribeOf(upstream_verbs'[i], handles[h])
           \/ \E g \in HandleIds : g # h /\ SubscriptionCancelOf(g)

(* C7 as stated: a subscription that is cancelled while the link is ready   *)
(* (its Subscribe has then been sent, at its creation or by a flush) has    *)
(* had exactly one Subscribe with its messageref, name and topic handed to  *)
(* the connection; its cancel hands over exactly one Unsubscribe with the   *)
(* same name and topic, and nothing of it follows.                          *)
C7_OneSubscribeOneUnsubscribe ==
    [][\A h \in HandleIds :
          /\ (SubscriptionCancelOf(h) /\ connection_ready) =>
                 handles[h].nsent = 1 /\ CancelUnsubscribes(h)
          /\ (handles[h].kind = "subscription" /\ handles[h].cancelled) =>
                 NothingAfterCancel(h)]_vars

(* C7: a subscription that is cancelled while the link is ready has had its *)
(* Subscribe, with its messageref, name and topic, handed to the connection *)
(* once in every Ready period it has lived in: exactly once when it is      *)
(* cancelled in the Ready period in which it was first sent, and once more  *)
(* for every reconnect it has lived through (see C8); its cancel hands over *)
(* exactly one Unsubscribe with the same name and topic, and nothing of it  *)
(* follows.                                                                 *)
C7_OneSubscribePerReadyPeriod ==
    [][\A h \in HandleIds :
          /\ (SubscriptionCancelOf(h) /\ connection_ready) =>
                 /\ handles[h].nsent = ReadyPeriods(handles[h].born, phase)
                 /\ handles[h].nsent >= 1
                 /\ CancelUnsubscribes(h)
          /\ (handles[h].kind = "subscription" /\ handles[h].cancelled) =>
                 NothingAfterCancel(h)]_vars

\* C7 witness: a subscription created while the link was ready, sent again by
\* the flush after a reconnect, has just been cancelled in the second Ready
\* period: two Subscribes have been handed over, and now one Unsubscribe
C7_Witness ==
    \E h \in HandleIds :
        /\ handles[h].kind = "subscription" /\ handles[h].cancelled
        /\ connection_ready
        /\ handles[h].born = 1 /\ phase = 3
        /\ handles[h].nsent = 2
        /\ Len(upstream_verbs) = 1 /\ IsUnsubscribeOf(upstream_verbs[1], handles[h])

(* C8: every verb enqueued with auto_resend and not cancelled is handed to  *)
(* the connection exactly once by each transition into Ready, and once more *)
(* by put_upstream itself when the link is ready at enqueue time.           *)
C8_AutoResendOncePerReady ==
    [][/\ IntoReady =>
              \A h \in HandleIds :
                  (AutoResendHandle(handles[h]) /\ ~handles[h].cancelled) =>
                      Count(upstream_verbs', handles[h].verb) = 1
       /\ \A h \in 1..Len(handles') :
              (h > Len(handles) /\ AutoResendHandle(handles'[h])) =>
                  Count(upstream_verbs', handles'[h].verb) =
                      IF connection_ready THEN 1 ELSE 0]_vars

\* C8 witness: a session or subscription made while the link was ready has
\* been sent again by the transition into Ready of a reconnect
C8_Witness ==
    \E h \in HandleIds :
        /\ AutoResendHandle(handles[h]) /\ ~handles[h].cancelled
        /\ handles[h].born % 2 = 1 /\ phase = handles[h].born + 2
        /\ connection_ready
        /\ handles[h].nsent = 2
        /\ Count(upstream_verbs, handles[h].verb) = 1

\* the verbs of the put_upstream calls ps
VerbsOf(ps) == [i \in 1..Len(ps) |-> ps[i].verb]

(* C9: while the link is ready, a step hands to the connection exactly the  *)
(* verbs it passes to put_upstream, in the order of the calls, none dropped *)
(* and none twice.                                                          *)
C9_ReadyPutsSentAtOnce ==
    [][connection_ready => upstream_verbs' = VerbsOf(puts')]_vars

\* C9 witness: a verb with a ttl was put while the link was ready and sent
C9_Witness ==
    /\ connection_ready
    /\ Len(puts) = 1 /\ puts[1].ttl # None
    /\ upstream_verbs = <<puts[1].verb>>

(* C10: the requests and posts that one transition into Ready sends are     *)
(* sent in the order in which they were enqueued (the payload is the number *)
(* of the handle, handles being numbered in the order of creation), also    *)
(* when expired entries lay between them in the backlog.                    *)
C10_BacklogFifo ==
    \A i, j \in 1..Len(upstream_verbs) :
        (i < j /\ IsTtlVerb(upstream_verbs[i]) /\ IsTtlVerb(upstream_verbs[j])) =>
            Val(upstream_verbs[i].payload) < Val(upstream_verbs[j].payload)

\* C10 witness: of three entries that waited in the backlog, the first and the
\* third were sent, in that order, and the second had expired
C10_Witness ==
    /\ Len(handles) >= 3
    /\ upstream_verbs = <<handles[1].verb, handles[3].verb>>
    /\ \A h \in 1..3 :
           /\ TtlHandle(handles[h])
           /\ handles[h].born = handles[1].born
           /\ handles[h].enqueued # None /\ Val(handles[h].ttl) > 0
    /\ handles[2].nsent = 0
    /\ now > Val(handles[2].enqueued) + Val(handles[2].ttl)

----------------------------------------------------------------------------
(* The verbs that come in *)

\* a messageref is registered only when it is allocated, and never again
MessagerefsNotReused ==
    \A r \in DOMAIN message_handlers' :
        r \in DOMAIN message_handlers \/ (r = next_messageref /\ next_messageref' > r)

(* C11, as stated: for every messageref r allocated by the client, the       *)
(* first MESSAGE carrying r invokes the handler registered for r and removes *)
(* the entry for r in the same step; a MESSAGE carrying an r that has no      *)
(* entry (any later one, r never being registered again) invokes no handler. *)
C11_HandlerOnceForEveryMessageref ==
    [][/\ \A r \in 1..next_messageref, st \in MessageStatuses :
              MockDownstreamMessage(r, st) =>
                  IF r \in DOMAIN message_handlers
                  THEN /\ delivered' = <<MessageEvent(message_handlers[r], r, st)>>
                       /\ r \notin DOMAIN message_handlers'
                  ELSE delivered' = <<>>
       /\ MessagerefsNotReused]_vars

(* C11, amended: for every messageref r allocated for a request, the first   *)
(* MESSAGE carrying r that arrives while r is registered invokes the handler *)
(* and removes the entry for r in the same step, and every later MESSAGE      *)
(* carrying r invokes no handler; a messageref allocated for a subscription   *)
(* is not released by a MESSAGE: its handler is invoked for every MESSAGE     *)
(* carrying r for as long as r is registered.                                 *)
C11_HandlerOnceForRequestMessageref ==
    [][/\ \A r \in 1..next_messageref, st \in MessageStatuses :
              MockDownstreamMessage(r, st) =>
                  IF r \in DOMAIN message_handlers
                  THEN LET h == message_handlers[r]
                       IN  /\ delivered' = <<MessageEvent(h, r, st)>>
                           /\ handles[h].kind = "request" =>
                                  r \notin DOMAIN message_handlers'
                           /\ handles[h].kind = "subscription" =>
                                  /\ r \in DOMAIN message_handlers'
                                  /\ message_handlers'[r] = h
                  ELSE delivered' = <<>>
       /\ MessagerefsNotReused]_vars

\* C11 witness: the response to a request has been handed to its handler and
\* its messageref is released, while that of a subscription is still registered
C11_Witness ==
    \E h \in HandleIds, r \in 1..next_messageref, st \in MessageStatuses :
        /\ handles[h].kind = "request"
        /\ handles[h].verb.messageref = Some(r)
        /\ delivered = <<MessageEvent(h, r, st)>>
        /\ r \notin DOMAIN message_handlers
        /\ \E r2 \in DOMAIN message_handlers :
               handles[message_handlers[r2]].kind = "subscription"

\* the step takes the link out of Ready
OutOfReady == connection_ready /\ ~connection_ready'

\* the topics in the interest set of the handle hd
InterestSet(hd) == {hd.current_interest[i] : i \in 1..Len(hd.current_interest)}

(* C12: on every transition out of Ready, each session hands to its interest *)
(* handlers exactly one no-interest event for every topic that is in its      *)
(* interest set, none for any other topic, and its interest set is empty      *)
(* after the step.                                                            *)
C12_NoInterestForEveryHeldTopic ==
    [][OutOfReady =>
          /\ \A h \in HandleIds :
                 (handles[h].kind = "session" /\ ~handles[h].cancelled) =>
                     /\ \A topic \in InterestTopics :
                            Count(delivered', InterestEvent(h, topic, "NO_INTEREST")) =
                                IF topic \in InterestSet(handles[h]) THEN 1 ELSE 0
                     /\ handles'[h].current_interest = <<>>
          /\ \A i \in 1..Len(delivered') :
                 /\ delivered'[i].status = "NO_INTEREST"
                 /\ delivered'[i].to \in connection_lost_handlers
                 /\ Val(delivered'[i].topic) \in InterestSet(handles[delivered'[i].to])]_vars

\* C12 witness: the link has just been lost while a session held two topics, and
\* one no-interest event for each of them has been delivered to the interest
\* handler registered on it
C12_Witness ==
    \E h \in HandleIds :
        /\ handles[h].kind = "session" /\ ~handles[h].cancelled
        /\ Len(handles[h].handlers) = 1
        /\ \A i \in 1..Len(delivered) : delivered[i].called = <<1>>
        /\ ~connection_ready /\ phase > 0
        /\ handles[h].current_interest = <<>>
        /\ Len(delivered) = 2
        /\ \A topic \in InterestTopics :
               Count(delivered, InterestEvent(h, topic, "NO_INTEREST")) = 1

\* the session hd holds a topic in its interest set
HoldsInterest(hd) == hd.kind = "session" /\ hd.current_interest # <<>>

(* C13: whenever the connection is not Ready, no session holds a topic in its *)
(* interest set, whatever packets the server sends and wherever the attempt   *)
(* fails.                                                                     *)
C13_NoInterestHeldOutOfReady ==
    conn.state # "READY" => \A h \in HandleIds : ~HoldsInterest(handles[h])

\* the transitions of the state machine
Transitions ==
    {<<"IDLE", "CONNECTING">>, <<"CONNECTING", "WAIT_WELCOME">>,
     <<"CONNECTING", "FAILED">>, <<"WAIT_WELCOME", "READY">>,
     <<"WAIT_WELCOME", "FAILED">>, <<"READY", "FAILED">>, <<"FAILED", "IDLE">>}

\* every assignment of the sequence follows the one before it along a transition
AlongTransitions(seq) ==
    \A i \in 1..(Len(seq) - 1) : <<seq[i], seq[i + 1]>> \in Transitions

\* Ready is assigned only after WaitWelcome, the WELCOME packet having been
\* received on the socket that is open
ReadyAfterWelcome(seq, c) ==
    \A i \in 1..(Len(seq) - 1) :
        seq[i + 1] = "READY" =>
            /\ seq[i] = "WAIT_WELCOME" /\ c.welcome_received
            /\ conn.socket = "open"
            /\ i + 1 = Len(seq) => c.socket = "open"

(* C14: the state is first set to Idle, and every later assignment of a step  *)
(* follows the state before it along one of the seven transitions; Ready is   *)
(* assigned only from WaitWelcome with the WELCOME packet received on the     *)
(* current socket.                                                            *)
C14_StateChangesAlongTransitions ==
    /\ Head(conn.states) = "IDLE" /\ AlongTransitions(conn.states)
    /\ [][LET seq == <<conn.state>> \o conn'.states
          IN  /\ AlongTransitions(seq)
              /\ ReadyAfterWelcome(seq, conn')
              /\ conn'.state = Last(seq)]_vars

\* C14 witness: Ready has just been entered by a connect that followed a failed
\* attempt, so that every state has been visited
C14_Witness ==
    /\ conn.states = <<"READY">> /\ conn.state = "READY"
    /\ conn.welcome_received
    /\ conn.i_before_connect > 0

\* the values of the sequence that differ from the one before them, flag
\* being the value before the first
RECURSIVE Changes(_, _)
Changes(flag, values) ==
    IF values = <<>> THEN <<>>
    ELSE (IF Some(values[1]) # flag THEN <<values[1]>> ELSE <<>>)
             \o Changes(Some(values[1]), Tail(values))

\* the calls of the ready handler made by a step that is not its installation:
\* one call with the new value of the ready flag for every assignment of the
\* step that changes the flag, and none for one that does not
CalledOncePerChange ==
    conn.ready_handler =>
        /\ conn'.ready_calls = Changes(conn.ready, conn'.readies)
        /\ conn'.ready = IF conn'.readies = <<>> THEN conn.ready
                         ELSE Some(Last(conn'.readies))

\* a value handed to the ready handler differs from the one handed to it
\* before, which Core.__on_connection_ready keeps in connection_ready
Alternating ==
    (conn.ready_handler /\ conn'.ready_calls # <<>>) =>
        /\ conn'.ready_calls[1] # connection_ready
        /\ \A i \in 1..(Len(conn'.ready_calls) - 1) :
               conn'.ready_calls[i + 1] # conn'.ready_calls[i]
        /\ connection_ready' = Last(conn'.ready_calls)

(* C15 as stated: the ready handler is called once with false when it is      *)
(* installed, and afterwards exactly once on each step that changes the ready *)
(* flag and never on a step that keeps it, the values alternating.            *)
C15_InstalledWithFalse ==
    [][/\ SetReadyHandler => conn'.ready_calls = <<FALSE>>
       /\ CalledOncePerChange
       /\ Alternating]_vars

(* C15: the ready handler is called once with the current value of the ready  *)
(* flag when it is installed (true when the connection is Ready at that       *)
(* moment), and afterwards exactly once on each step that changes the ready   *)
(* flag and never on a step that keeps it, so that every value it receives    *)
(* differs from the one before.                                               *)
C15_InstalledWithCurrentValue ==
    [][/\ SetReadyHandler =>
              conn'.ready_calls = <<conn.state = "READY">> /\ conn'.ready = conn.ready
       /\ CalledOncePerChange
       /\ Alternating]_vars

\* C15 witness: the handler has received three values, the last of them false
\* on the loss of a Ready connection
C15_Witness ==
    /\ conn.ready_handler
    /\ phase = 3
    /\ conn.ready_calls = <<FALSE>> /\ ~connection_ready
    /\ conn.states = <<"FAILED">>

\* the step enters Failed
EntersFailed == conn'.states # <<>> /\ Last(conn'.states) = "FAILED"

\* the step is the one in which the OS reports the connect as successful
ConnectSucceeds == conn'.connect_success /\ ~conn.connect_success

\* the wait before the attempt that follows the k-th failed one in a row
CooldownOfAttempt(k) ==
    IF k < Len(cooldown_timeouts) THEN cooldown_timeouts[k]
    ELSE cooldown_timeouts[Len(cooldown_timeouts)]

\* the cool-down timer has just been armed with the timeout
ArmedWith(c, timeout) ==
    /\ c.cooldown_timer = Some(timeout)
    /\ <<timeout, "cooldown_timer">> \in c.timer_deadlines

(* C16: the k-th entry into Failed in a row, no connect having succeeded in   *)
(* between, arms the cool-down timer with the k-th value of 5, 5, 5, 10, 10,  *)
(* 20, 30, 60, 60, ...; the index advances by one on every entry into Failed  *)
(* until it rests on the last slot, and does not decrease in a step in which  *)
(* no connect succeeds.                                                       *)
C16_CooldownProgression ==
    [][/\ EntersFailed =>
              /\ ArmedWith(conn', CooldownOfAttempt(conn.nfailed + 1))
              /\ conn'.cooldown_timeout_i =
                     IF conn.cooldown_timeout_i < Len(cooldown_timeouts) - 1
                     THEN conn.cooldown_timeout_i + 1
                     ELSE Len(cooldown_timeouts) - 1
       /\ ~ConnectSucceeds => conn'.cooldown_timeout_i >= conn.cooldown_timeout_i]_vars

\* C16 witness: the tenth attempt in a row has just failed, the index rests on
\* the last slot and the wait is 60 s as after the eighth and the ninth
C16_Witness ==
    /\ conn.states = <<"FAILED">>
    /\ conn.nfailed = Len(cooldown_timeouts) + 2
    /\ conn.cooldown_timeout_i = Len(cooldown_timeouts) - 1
    /\ ArmedWith(conn, 60)

\* the connection has not entered Failed since the OS reported the connect as
\* successful
SinceConnect(c) == c.connect_success /\ c.nfailed = 0

(* C17: the first entry into Failed after a successful connect arms the       *)
(* cool-down timer with 5 s, the first value of the list, whatever the index  *)
(* was when the connect succeeded.                                            *)
C17_FirstCooldownAfterConnect ==
    [][(EntersFailed /\ SinceConnect(conn)) =>
           ArmedWith(conn', cooldown_timeouts[1])]_vars

\* C17 witness: a connect succeeded when the index pointed at a wait of 10 s
\* or more, the connection has failed since, and the wait is 5 s
C17_Witness ==
    /\ conn.states = <<"FAILED">>
    /\ conn.connect_success /\ conn.nfailed = 1
    /\ cooldown_timeouts[conn.i_before_connect + 1] > cooldown_timeouts[1]
    /\ ArmedWith(conn, cooldown_timeouts[1])

\* the cool-down timer armed on the last entry into Failed has expired
CooldownOver(c) == has_expired(c, "cooldown_timer")

(* C18: a connect attempt is started only from Idle, Idle is entered only     *)
(* from Failed and only when the cool-down timer armed on that entry into     *)
(* Failed has expired, and no other step changes the state of a connection    *)
(* that is in Failed.                                                         *)
C18_NoRetryBeforeCooldown ==
    [][LET seq == <<conn.state>> \o conn'.states
       IN  /\ \A i \in 1..(Len(seq) - 1) :
                  /\ seq[i + 1] = "CONNECTING" => seq[i] = "IDLE"
                  /\ seq[i + 1] = "IDLE" => seq[i] = "FAILED" /\ CooldownOver(conn)
           /\ (conn.state = "FAILED" /\ ~CooldownOver(conn)) =>
                  /\ conn'.state = "FAILED" /\ conn'.states = <<>>
                  /\ conn'.socket = "closed" /\ ~conn'.proxy
                  /\ conn'.cooldown_timeout_i = conn.cooldown_timeout_i]_vars

\* C18 witness: the connect timer of the failed attempt has fired while the
\* cool-down was running, and the connection is still in Failed
C18_Witness ==
    /\ conn.state = "FAILED" /\ conn.states = <<>>
    /\ conn.expired_timer = Some("timeout_timer")
    /\ conn.cooldown_timer # None /\ ~CooldownOver(conn)

\* the step runs the handler of a timer that has expired
TimerFires == conn'.expired_timer # None

\* the ready handler is called with true in the step
CalledWithTrue == \E i \in 1..Len(conn'.ready_calls) : conn'.ready_calls[i]

(* C19: when the welcome timer expires in WaitWelcome, no WELCOME having been *)
(* received since the connect succeeded, the next step of the loop moves the  *)
(* connection to Failed, closes the socket, does not call the ready handler,  *)
(* and arms a cool-down of 5 s; the ready handler is called with true from    *)
(* WaitWelcome only when a WELCOME packet is read before the welcome timer    *)
(* has expired.                                                               *)
C19_WelcomeTimeout ==
    [][/\ (conn.state = "WAIT_WELCOME" /\ has_expired(conn, "welcome_timer")
              /\ TimerFires) =>
              /\ conn'.states = <<"FAILED">> /\ conn'.state = "FAILED"
              /\ conn'.socket = "closed" /\ ~conn'.proxy
              /\ conn'.ready_calls = <<>> /\ conn'.ready = Some(FALSE)
              /\ ArmedWith(conn', cooldown_timeouts[1])
       /\ (conn.state = "WAIT_WELCOME" /\ CalledWithTrue) =>
              /\ ~has_expired(conn, "welcome_timer")
              /\ conn'.welcome_received /\ ~TimerFires]_vars

\* C19 witness: the welcome timer has just fired on a connection whose connect
\* had succeeded and whose ready handler is installed; it is in Failed with the
\* socket closed and a cool-down of 5 s
C19_Witness ==
    /\ conn.states = <<"FAILED">>
    /\ conn.expired_timer = Some("welcome_timer")
    /\ conn.connect_success /\ ~conn.welcome_received
    /\ conn.ready_handler /\ conn.ready_calls = <<>>
    /\ conn.socket = "closed"
    /\ ArmedWith(conn, cooldown_timeouts[1])

(* C20: a BYEBYE packet read in WaitWelcome or in Ready moves the connection  *)
(* to Failed and closes the socket; read in Ready it makes one call of the    *)
(* ready handler, with false, and read in WaitWelcome none.                   *)
C20_ByebyeFails ==
    [][OnRead("BYEBYE") =>
           /\ conn.state \in {"WAIT_WELCOME", "READY"}
           /\ conn'.states = <<"FAILED">> /\ conn'.state = "FAILED"
           /\ conn'.socket = "closed" /\ ~conn'.proxy /\ ~conn'.encoder
           /\ conn'.ready = Some(FALSE)
           /\ conn'.ready_calls =
                  IF conn.state = "READY" /\ conn.ready_handler THEN <<FALSE>> ELSE <<>>]_vars

\* C20 witness: BYEBYE has just been read on a Ready connection whose handler
\* is installed: the connection is in Failed, the socket closed, and the
\* handler has been called with false
C20_Witness ==
    /\ conn.states = <<"FAILED">>
    /\ conn.byebye_received /\ conn.welcome_received
    /\ conn.ready_handler /\ conn.ready_calls = <<FALSE>>
    /\ conn.socket = "closed"

----------------------------------------------------------------------------
(* The allocation of messagerefs *)

\* the handles that were given a messageref, in the order of their creation
Allocating == SelectSeq([h \in HandleIds |-> h], LAMBDA h : handles[h].verb.messageref # None)

(* C26: the k-th messageref allocated is k: the handles that allocated one    *)
(* hold 1, 2, 3, ... in the order of their creation, the counter is one more  *)
(* than the number of allocations, and only allocated messagerefs are         *)
(* registered, also after messagerefs have been discarded or released.        *)
C26_MessagerefsCountUp ==
    /\ \A k \in 1..Len(Allocating) : handles[Allocating[k]].verb.messageref = Some(k)
    /\ next_messageref = Len(Allocating) + 1
    /\ DOMAIN message_handlers \subseteq 1..Len(Allocating)

\* C26 witness: the first messageref is no longer registered, its request
\* having been answered or cancelled, and the next allocation has returned 2
C26_Witness ==
    /\ Len(Allocating) = 2
    /\ 1 \notin DOMAIN message_handlers
    /\ 2 \in DOMAIN message_handlers
    /\ handles[Allocating[2]].verb.messageref = Some(2)

----------------------------------------------------------------------------
(* Requests sent from a stub, and the handler lists *)

\* the step sends a request from a stub
SendsFromStub ==
    /\ Len(handles') = Len(handles) + 1
    /\ handles'[Len(handles')].kind = "request"
    /\ handles'[Len(handles')].stub # None

(* C27: a request sent from a stub is bidirectional iff at least one handler  *)
(* is registered on the stub when send() is called, whatever the stub held    *)
(* when it was built; a bidirectional request is given the next messageref,   *)
(* the counter advances and the request is recorded as its handler, and for a *)
(* unidirectional request the verb holds no messageref and neither the        *)
(* counter nor the handler map changes.                                       *)
C27_DirectionDecidedAtSend ==
    [][SendsFromStub =>
          LET h == Len(handles')
              verb == handles'[h].verb
              bidirectional == handles[Val(handles'[h].stub)].handlers # <<>>
          IN  /\ verb.unidirectional = Some(~bidirectional)
              /\ bidirectional =>
                     /\ verb.messageref = Some(next_messageref)
                     /\ next_messageref' = next_messageref + 1
                     /\ DOMAIN message_handlers' = DOMAIN message_handlers \cup {next_messageref}
                     /\ message_handlers'[next_messageref] = h
              /\ ~bidirectional =>
                     /\ verb.messageref = None
                     /\ UNCHANGED <<next_messageref, message_handlers>>]_vars

\* C27 witness: one stub, built without handlers, has sent a unidirectional
\* request, was given a handler, and has then sent a bidirectional request
C27_Witness ==
    \E s, h1, h2 \in HandleIds :
        /\ handles[s].kind = "stub" /\ s < h1 /\ h1 < h2
        /\ handles[h1].stub = Some(s) /\ handles[h2].stub = Some(s)
        /\ handles[h1].verb.unidirectional = Some(TRUE)
        /\ handles[h1].verb.messageref = None
        /\ handles[h2].verb.unidirectional = Some(FALSE)
        /\ handles[h2].verb.messageref = Some(1)
        /\ 1 \in DOMAIN message_handlers /\ next_messageref = 2

(* C29: for every event handed to a handler list, the handlers invoked are    *)
(* exactly those whose filter meets the status of the event, each of them     *)
(* once and in the order of registration.                                     *)
C29_HandlersWithMatchingFilter ==
    [][\A e \in 1..Len(delivered') :
          LET ev == delivered'[e]
              handlers == HandlersOf(ev.to)
          IN  /\ \A i \in 1..Len(handlers) :
                     Count(ev.called, i) =
                         IF ev.status \in handlers[i] THEN 1 ELSE 0
              /\ \A j \in 1..Len(ev.called) : ev.called[j] \in 1..Len(handlers)
              /\ \A j, k \in 1..Len(ev.called) : j < k => ev.called[j] < ev.called[k]]_vars

\* C29 witness: a message has been handed to a list of three handlers, and the
\* first and the third were invoked, the filter of the second not matching
C29_Witness ==
    \E e \in 1..Len(delivered) :
        /\ Len(HandlersOf(delivered[e].to)) = 3
        /\ delivered[e].called = <<1, 3>>
        /\ delivered[e].status \notin HandlersOf(delivered[e].to)[2]

\* the bytes of a sequence of chunks, first chunk first
RECURSIVE Flat(_)
Flat(chunks) == IF chunks = <<>> THEN <<>> ELSE Head(chunks) \o Flat(Tail(chunks))

\* the bytes that the encoder still has to send: the current chunk from the
\* commit position on, then the chunks of the deque in the order in which
\* pop() takes them
Pending(e) ==
    (IF e.currentchunk = None
     THEN <<>>
     ELSE Slice(Val(e.currentchunk), Val(e.commitpos), Len(Val(e.currentchunk))))
        \o Flat(Reversed(e.chunkbuffer))

\* C22: whatever parts of the offered bytes the socket takes, the bytes taken
\* so far followed by the bytes the encoder still holds from its commit
\* position on are the frames in the order they were encoded: the bytes
\* taken are a prefix of the frames, none lost, doubled or out of order, and
\* commit never finds more committed than fetched
C22_AcceptedIsPrefixOfFrames ==
    /\ codec.accepted \o Pending(codec.enc) = Flat(codec.frames)
    /\ codec.raised # Some("ValueError")

\* the socket has taken the first frame and a part of the second, in pieces of
\* at most SmallChunk bytes, and the last write took nothing
C22_Witness ==
    /\ codec.enc.chunksize = SmallChunk
    /\ Len(codec.frames) = 2
    /\ Len(codec.accepted) > Len(codec.frames[1])
    /\ Len(codec.accepted) < Len(Flat(codec.frames))
    /\ codec.enc.currentchunk # None /\ Val(codec.enc.commitpos) > 0
    /\ Val(codec.enc.fetchpos) > Val(codec.enc.commitpos) + SmallChunk

\* the messageref field of a REQUEST frame as the server reads it: the uint32
\* after the header, the name and the flags
RequestMessagerefOnWire(frame) == unpack_I(frame, 5 + (1 + frame[6]) + 1)

\* the flags field of a REQUEST frame
RequestFlagsOnWire(frame) == frame[5 + (1 + frame[6]) + 1]

\* C28: the frame of every request that was encoded carries messageref 0 if
\* the request is unidirectional, whatever messageref it was given, and the
\* messageref it was given if it is bidirectional; the unidirectional flag is on
\* the wire as given
C28_UnidirectionalCarriesZero ==
    \A i \in 1..Len(codec.packets) :
        codec.packets[i].type = "RequestPacket" =>
            LET f == codec.packets[i].fields
            IN  /\ codec.frames[i][5] = PACKET_REQUEST
                /\ RequestFlagsOnWire(codec.frames[i]) = Bit(Val(f.unidirectional))
                /\ RequestMessagerefOnWire(codec.frames[i]) =
                       IF Val(f.unidirectional) THEN 0 ELSE Val(f.messageref)

\* a unidirectional request that holds messageref 258 and a bidirectional one
\* with messageref 258 were encoded, and the socket has taken the first
C28_Witness ==
    /\ Len(codec.packets) = 2
    /\ codec.packets[1].type = "RequestPacket" /\ codec.packets[2].type = "RequestPacket"
    /\ codec.packets[1].fields.unidirectional = Some(TRUE)
    /\ codec.packets[1].fields.messageref = Some(258)
    /\ codec.packets[2].fields.unidirectional = Some(FALSE)
    /\ codec.packets[2].fields.messageref = Some(258)
    /\ Len(codec.accepted) >= Len(codec.frames[1])
    /\ RequestMessagerefOnWire(codec.accepted) = 0

\* the results of calling decode until it finds no further packet
RECURSIVE DecodeAll(_)
DecodeAll(d) ==
    LET r == decode(d)
    IN  IF r.packet = None /\ r.raised = None
        THEN <<>>
        ELSE <<[packet |-> r.packet, raised |-> r.raised]>> \o DecodeAll(r.decoder)

\* the bytes that the decoder holds: buff, then the chunks of the deque in the
\* order in which pop() takes them
Unconsumed(d) == d.buff \o Flat(Reversed(d.chunkbuffer))

\* the bytes begin with a whole frame: the header of 5 bytes and as many bytes
\* of body as the header declares
WholeFrame(bytes) == Len(bytes) >= 5 /\ Len(bytes) >= 5 + unpack_I(bytes, 0)

\* the frames of the first n packets that the server sent
FramesOf(sent, n) == [i \in 1..n |-> sent[i].frame]

\* the results so far, followed by those that decode would still give, are the
\* results for the unsplit stream
SameAsUnsplit ==
    codec.decoded \o DecodeAll(codec.dec) = DecodeAll(add_chunk(BaseDecoder, codec.fed))

\* the frames of the results so far, followed by the bytes that the decoder
\* holds, are the bytes it was given
NoByteLost ==
    /\ Len(codec.decoded) <= Len(codec.sent)
    /\ Flat(FramesOf(codec.sent, Len(codec.decoded))) \o Unconsumed(codec.dec) = codec.fed

\* a decode call gives "not enough data" iff the bytes that the decoder holds
\* do not begin with a whole frame
WaitsForWholeFrame ==
    codec'.returned # None =>
        ((Val(codec'.returned).packet = None /\ Val(codec'.returned).raised = None)
            <=> ~WholeFrame(Unconsumed(codec.dec)))

\* C23: however the stream is split into chunks, the decoder gives the packets
\* of the unsplit stream; decode gives "not enough data" until the 5 + length
\* bytes of the next frame are there, and no byte is dropped or consumed twice
C23_SplitsGiveSamePackets ==
    /\ [](SameAsUnsplit /\ NoByteLost)
    /\ [][WaitsForWholeFrame]_vars

\* two frames were sent and the SESSION packet of the first has been returned;
\* of the second the decoder holds a part of the header, taken into buff from
\* a chunk that began within the first frame, and decode has just given "not
\* enough data" while the rest is still to come
C23_Witness ==
    /\ Len(codec.sent) = 2 /\ Len(codec.decoded) = 1
    /\ codec.sent[1].kind = "down" /\ codec.sent[1].packet.type = "SessionPacket"
    /\ codec.decoded[1].packet = Some(codec.sent[1].packet)
    /\ codec.returned = Some([packet |-> None, raised |-> None])
    /\ Len(codec.dec.buff) \in 1..4 /\ codec.dec.chunkbuffer = <<>>
    /\ codec.wire # <<>>

\* the result of decode for the i-th frame that went through the decoder
TripResult(i) == codec.decoded[i]

\* every frame that went through the decoder gave a result and left nothing
\* behind
EveryTripDone ==
    /\ Len(codec.decoded) = Len(codec.sent)
    /\ Unconsumed(codec.dec) = <<>>

\* C30 as stated: the frame that the encoder makes for a packet p, fed into the
\* decoder, gives a packet of the type and with the field values of p
C30_DecodeOfEncodeIsIdentity ==
    /\ EveryTripDone
    /\ \A i \in 1..Len(codec.sent) :
           codec.sent[i].kind = "echo" =>
               TripResult(i) = [packet |-> Some(codec.sent[i].packet), raised |-> None]

\* C30, amended: the frame of the protocol for a packet of the server (SESSION,
\* CALL, MESSAGE, INTEREST, PING, WELCOME, BYEBYE), fed into the decoder, gives
\* a packet of that type with those field values; the frame that the encoder
\* makes for a packet of the client declares the length of its body and has a
\* type that the decoder does not know, and the decoder consumes it and raises
\* a DecodingError instead of returning a packet
C30_RoundTripPerDirection ==
    /\ EveryTripDone
    /\ \A i \in 1..Len(codec.sent) :
           LET item == codec.sent[i]
           IN  /\ item.kind = "down" =>
                      TripResult(i) = [packet |-> Some(item.packet), raised |-> None]
               /\ item.kind = "echo" =>
                      /\ unpack_I(item.frame, 0) = Len(item.frame) - 5
                      /\ item.frame[5] \notin handler_map
                      /\ TripResult(i) = [packet |-> None, raised |-> Some("DecodingError")]

\* the REQUEST frame of the encoder and then the CALL frame of the server went
\* through the decoder
C30_Witness ==
    /\ Len(codec.sent) = 2 /\ Len(codec.decoded) = 2
    /\ codec.sent[1].kind = "echo" /\ codec.sent[1].packet.type = "RequestPacket"
    /\ codec.sent[2].kind = "down" /\ codec.sent[2].packet.type = "CallPacket"
    /\ TripResult(1).raised = Some("DecodingError")
    /\ TripResult(2).packet = Some(codec.sent[2].packet)

\* n PONG frames
RECURSIVE Pongs(_)
Pongs(n) == IF n = 0 THEN <<>> ELSE packets_pong \o Pongs(n - 1)

\* the reads that give nothing but PING frames
PingsOnly == {Some(packets_ping), Some(packets_ping \o packets_ping)}

\* C21: a read adds the bytes of one PONG frame for every PING frame it gives
\* to what the encoder has to send and turns the write interest on; a read of
\* nothing but PING frames assigns no state, leaves the ready flag as it is and
\* calls no ready handler
C21_PingQueuesOnePong ==
    [][\A recv \in Recvs :
           (recv # None /\ Pings(Val(recv)) > 0 /\ OnReadFrame(recv)) =>
               /\ Pending(conn'.enc) = Pending(conn.enc) \o Pongs(Pings(Val(recv)))
               /\ conn'.write_interest
               /\ conn'.raised = None
               /\ recv \in PingsOnly =>
                      /\ conn'.state = conn.state /\ conn'.states = <<>>
                      /\ conn'.ready = conn.ready /\ conn'.ready_calls = <<>>]_vars

\* the connection is Ready, its observer installed, and after a second PING a
\* part of the first PONG has been taken by the socket and the second waits
C21_Witness ==
    /\ conn.state = "READY" /\ conn.ready = Some(TRUE) /\ conn.ready_handler
    /\ conn.write_interest
    /\ conn.enc.currentchunk = Some(packets_pong) /\ Val(conn.enc.commitpos) = 2
    /\ conn.enc.chunkbuffer = <<packets_pong>>

\* the step is a read that gives a frame the decoder cannot decode: one of a
\* type it has no packet for, or a SESSION whose name is declared longer than
\* the frame body
UndecodableRead ==
    \/ OnReadFrame(Some(get_chunk(PongPacket)))
    \/ OnReadFrame(Some(OverlongString))

\* C24: a read of a frame that cannot be decoded raises nothing out of the read
\* handler, and leaves the connection in its state or moves it to Failed
C24_DecodeErrorRecovered ==
    [][UndecodableRead =>
           /\ conn'.raised = None
           /\ conn'.state \in {conn.state, "FAILED"}]_vars

\* the step is a transport failure on the connected socket: recv gives no
\* byte, recv raises an OSError, or send is called with the bytes to write and
\* raises an OSError
PeerCloses == OnReadFrame(Some(<<>>))
RecvFails == OnReadFrame(None)
SendFails == Offered(conn.enc) > 0 /\ OnWrite(None)

\* C25: every transport failure on the connected socket moves the connection
\* to Failed, calls the ready handler with false if the connection was ready,
\* and raises nothing out of the read or write handler
C25_TransportFailureFails ==
    [][PeerCloses \/ RecvFails \/ SendFails =>
           /\ conn'.state = "FAILED"
           /\ conn'.raised = None
           /\ (conn.ready = Some(TRUE) /\ conn.ready_handler
                   => conn'.ready_calls = <<FALSE>>)]_vars

----------------------------------------------------------------------------
(* Cancelled sessions *)

\* the session h has been cancelled
CancelledSession(h) == handles[h].kind = "session" /\ handles[h].cancelled

\* the dispatcher holds nothing of the session h: neither slot of its name
\* points to it and it is no connection-lost observer
Released(h) ==
    /\ call_handlers[Val(handles[h].verb.name)] # Some(h)
    /\ interest_handlers[Val(handles[h].verb.name)] # Some(h)
    /\ h \notin connection_lost_handlers

\* C31: a session on which cancel was called, whatever the link state and the
\* backlog were, is released by the dispatcher, and no call, interest or
\* simulated no-interest is handed to its handlers afterwards
C31_CancelReleasesSession ==
    /\ \A h \in HandleIds : CancelledSession(h) => Released(h)
    /\ \A i \in 1..Len(delivered) : ~CancelledSession(delivered[i].to)

----------------------------------------------------------------------------
(* Posts on calls and interests *)

\* the put_upstream call of a post() that makes a Post: a Post verb to the
\* postref, with the ttl given or the default, and no auto-resend
PostPut(postref, ttl_arg) ==
    PutCall(PostVerb(postref, Len(handles) + 1), PostTtl(ttl_arg), FALSE)

\* the step enqueues nothing and leaves the backlog, the auto-resend list and
\* the verbs handed to the connection alone
NothingEnqueued ==
    /\ puts' = <<>>
    /\ upstream_verbs' = <<>>
    /\ UNCHANGED <<upstream_backlog, upstream_auto_resend, handles>>

\* C34: Call.post enqueues a Post verb to the postref of the call iff the call
\* is bidirectional, Interest.post enqueues one iff the status of the interest
\* is interest; otherwise nothing is enqueued and the backlog, the auto-resend
\* list and the wire output stay as they are
C34_PostIffAllowed ==
    [][\A postref \in Postrefs, ttl_arg \in TtlArgs :
           /\ \A unidirectional \in BOOLEAN :
                  CallPost(unidirectional, postref, ttl_arg) =>
                      IF unidirectional THEN NothingEnqueued
                      ELSE puts' = <<PostPut(postref, ttl_arg)>>
           /\ \A status \in InterestStatuses :
                  InterestPost(status, postref, ttl_arg) =>
                      IF status = "INTEREST" THEN puts' = <<PostPut(postref, ttl_arg)>>
                      ELSE NothingEnqueued]_vars

\* a post was ignored while an earlier Post waits in the backlog with the
\* default ttl
C34_Witness ==
    /\ result = "Ignored"
    /\ puts = <<>>
    /\ Len(upstream_backlog) = 1
    /\ Len(handles) = 1 /\ handles[1].kind = "post" /\ handles[1].ttl = Some(post_default_ttl)

----------------------------------------------------------------------------
(* Cancelled sessions and subscriptions and the later transitions into Ready *)

\* C36: once cancel was called on a session or subscription, whatever the link
\* state and the backlog were, no later step hands its Login or Subscribe to the
\* connection: its count of sends stays, and a transition into Ready sends a verb
\* equal to it only for the handles of an equal verb that are not cancelled
C36_CancelledNotResent ==
    [][\A h \in HandleIds :
           (AutoResendHandle(handles[h]) /\ handles[h].cancelled) =>
               /\ handles'[h].nsent = handles[h].nsent
               /\ IntoReady =>
                      Count(upstream_verbs', handles[h].verb) =
                          Count(RegisteredFrom(1), handles[h].verb)]_vars

\* a session was cancelled while a request waited in the backlog, so that the
\* cancel raised and left its slots set, and the transition into Ready has sent
\* the request alone
C36_Witness ==
    \E h, r \in HandleIds :
        /\ handles[h].kind = "session" /\ handles[h].cancelled
        /\ call_handlers[Val(handles[h].verb.name)] = Some(h)
        /\ handles[r].kind = "request" /\ handles[r].enqueued # None
        /\ connection_ready
        /\ upstream_verbs = <<handles[r].verb>>
        /\ handles[h].nsent = 0 /\ handles[r].nsent = 1

----------------------------------------------------------------------------
(* Cancelled requests and subscriptions and the messages that come later *)

\* cancel was called on the request or subscription h
CancelledMessageHandle(h) ==
    handles[h].kind \in {"request", "subscription"} /\ handles[h].cancelled

\* C37: once cancel was called on a request or subscription, also while the
\* request waited in the backlog, its messageref is registered no longer and
\* no message that arrives afterwards is handed to its handlers
C37_NoMessageAfterCancel ==
    /\ \A r \in DOMAIN message_handlers : ~CancelledMessageHandle(message_handlers[r])
    /\ \A i \in 1..Len(delivered) : ~CancelledMessageHandle(delivered[i].to)

----------------------------------------------------------------------------
(* Verbs enqueued without auto_resend *)

\* C38: a verb enqueued without auto_resend goes to the connection at most
\* once: a request or post has been sent at most once however often the link
\* was lost and found again, and a Logout or Unsubscribe is sent only by the
\* step that enqueues it, once
C38_SentAtMostOnce ==
    /\ [](\A h \in HandleIds : TtlHandle(handles[h]) => handles[h].nsent <= 1)
    /\ [][\A i \in 1..Len(upstream_verbs') :
              upstream_verbs'[i].type \in {"Logout", "Unsubscribe"} =>
                  /\ puts' = <<PutCall(upstream_verbs'[i], None, FALSE)>>
                  /\ Count(upstream_verbs', upstream_verbs'[i]) = 1]_vars

\* a request that waited in the backlog was sent by the first transition into
\* Ready and not again by the second
C38_Witness ==
    \E h \in HandleIds :
        /\ handles[h].kind = "request" /\ handles[h].enqueued # None
        /\ handles[h].born = 0 /\ phase = 3 /\ connection_ready
        /\ handles[h].nsent = 1
        /\ Count(upstream_verbs, handles[h].verb) = 0

----------------------------------------------------------------------------
(* Subscriptions and the messages that carry their messageref *)

\* h is a subscription on which cancel was not called
LiveSubscription(h) ==
    handles[h].kind \in {"subscription", "subscribe"} /\ ~handles[h].cancelled

\* C39: from its creation until cancel is called, the messageref of a
\* subscription is registered to it, before and after any message and any
\* reconnect, and every message that carries it is handed to those of its
\* handlers whose filter the status of the message meets
C39_EveryMessageToSubscription ==
    /\ [](\A h \in HandleIds :
              LiveSubscription(h) =>
                  /\ Val(handles[h].verb.messageref) \in DOMAIN message_handlers
                  /\ message_handlers[Val(handles[h].verb.messageref)] = h)
    /\ [][\A h \in HandleIds, st \in MessageStatuses :
              (LiveSubscription(h) /\
               MockDownstreamMessage(Val(handles[h].verb.messageref), st)) =>
                  /\ delivered' = <<MessageEvent(h, Val(handles[h].verb.messageref), st)>>
                  /\ delivered'[1].called =
                         HandlerListCall(handles[h].handlers, from_verb(st))]_vars

----------------------------------------------------------------------------
(* Constructors that raise *)

\* the registrations and queues of the dispatcher
Dispatcher ==
    <<call_handlers, interest_handlers, connection_lost_handlers, next_messageref,
      message_handlers, upstream_auto_resend, upstream_backlog>>

\* C40: a session, subscription or request whose constructor raises a validation
\* error leaves the dispatcher as it was: no call, interest or connection-lost
\* handler registered, no messageref allocated, nothing added to the auto-resend
\* list or the backlog
C40_RaiseLeavesDispatcher ==
    [][result' = "ValueError" => UNCHANGED Dispatcher]_vars

----------------------------------------------------------------------------
(* The connect attempt and the cool-down come to an end *)

\* the connect-timeout is armed: its deadline, at most timeout_timeout seconds
\* away, waits in the loop
ConnectTimeoutArmed ==
    /\ conn.timeout_timer # None
    /\ <<Val(conn.timeout_timer), "timeout_timer">> \in conn.timer_deadlines

\* C32: whenever the connection is in Connecting the connect-timeout is armed,
\* and every connect attempt ends in WaitWelcome or Failed, also when no socket
\* event ever comes
C32_ConnectingEnds ==
    /\ [](conn.state = "CONNECTING" => ConnectTimeoutArmed)
    /\ (conn.state = "CONNECTING") ~> (conn.state \in {"WAIT_WELCOME", "FAILED"})

\* the cool-down is armed: its deadline waits in the loop
CooldownArmed ==
    /\ conn.cooldown_timer # None
    /\ <<Val(conn.cooldown_timer), "cooldown_timer">> \in conn.timer_deadlines

\* C33: Failed is never permanent: whenever the connection is in Failed the
\* cool-down timer is armed, the connection leaves Failed only through Idle into
\* a new connect attempt, and it always does so
C33_FailedNotPermanent ==
    /\ [](conn.state = "FAILED" => CooldownArmed)
    /\ [][conn.state = "FAILED" /\ conn'.state # "FAILED" =>
              /\ has_expired(conn, "cooldown_timer")
              /\ conn'.states = <<"IDLE", "CONNECTING">>]_vars
    /\ (conn.state = "FAILED") ~> (conn.state = "CONNECTING")

\* the cool-down timer has fired after a failed attempt, and the connection has
\* passed through Idle into the next attempt
C33_Witness ==
    /\ conn.nfailed >= 1
    /\ conn.expired_timer = Some("cooldown_timer")
    /\ conn.states = <<"IDLE", "CONNECTING">>
    /\ conn.state = "CONNECTING"

----------------------------------------------------------------------------
(* The dispatcher sends only while the connection has an encoder *)

\* the frames of the verbs, as one bytes object
RECURSIVE Frames(_)
Frames(verbs) ==
    IF verbs = <<>> THEN <<>> ELSE get_chunk(VerbPacket(verbs[1])) \o Frames(Tail(verbs))

\* the step is the call of the read handler in which a Ready connection
\* fails and notifies the Core of the loss, and nothing else is read in it
LostNotificationStep == connection_ready /\ (OnRead("BYEBYE") \/ OnRead("EOF"))

\* C35: the connection_ready flag of the dispatcher is true exactly when the
\* last notification of the connection said ready, the connection then has an
\* encoder, and no send_verb call of a step raises "Connection not ready",
\* whether it comes from put_upstream or from the flush.  The frames of the
\* verbs sent in a step join what the encoder has to send, unless the
\* connection fails later in the same step.  A verb that an application
\* handler enqueues during the connection-lost notification finds the flag
\* already false: it is not handed to the connection, it goes to the backlog
\* (the handlers of the model enqueue with a ttl), and nothing is raised.  The
\* flush itself calls no application code; a handler called in the same read
\* after the flush sends to the encoder that the flush has sent to.
C35_SendOnlyWithEncoder ==
    /\ [](connection_ready <=> (conn.ready_handler /\ conn.ready = Some(TRUE)))
    /\ [](connection_ready => conn.encoder)
    /\ [](conn.raised # Some("RuntimeError"))
    /\ [][upstream_verbs' # <<>> =>
              \/ /\ connection_ready'
                 /\ conn'.encoder
                 /\ conn'.write_interest
                 /\ Pending(conn'.enc) = Pending(conn.enc) \o Frames(upstream_verbs')
              \/ /\ ~connection_ready'
                 /\ ~conn'.encoder
                 /\ conn'.ready_calls # <<>>
                 /\ ~conn'.ready_calls[Len(conn'.ready_calls)]
                 /\ conn'.state = "FAILED"]_vars
    /\ [][LostNotificationStep =>
              /\ conn'.ready_calls = <<FALSE>>
              /\ ~connection_ready'
              /\ upstream_verbs' = <<>>
              /\ conn'.raised = None
              /\ upstream_backlog' =
                     [i \in 1..Len(puts') |->
                         LET put == puts'[Len(puts') + 1 - i]
                         IN  <<put.verb, Some(now + Val(put.ttl))>>]
                     \o upstream_backlog]_vars

\* C35 witness: the connection has failed out of Ready and has told the Core;
\* the session held a topic and its interest handler, called with the
\* no-interest event during the connection-lost notification, has enqueued a
\* request, which went to the backlog and not to the connection
C35_Witness ==
    /\ conn.ready_calls = <<FALSE>>
    /\ conn.state = "FAILED"
    /\ ~connection_ready
    /\ Len(delivered) = 1
    /\ Len(puts) = 1 /\ puts[1].verb.type = "Request"
    /\ upstream_verbs = <<>>
    /\ upstream_backlog # <<>>
    /\ upstream_backlog[1][1] = puts[1].verb
    /\ conn.raised = None

====
